---- MODULE Spec2Model ----
(***************************************************************************)
(* Student / course / enrollment management: the three services, the       *)
(* entity validation they rely on and the JSON file handler they persist    *)
(* through (src/student_management).                                        *)
(*                                                                          *)
(* Python values are tagged records, strings are sequences of one-character *)
(* strings, so that strip(), the regular expressions, isoformat() and the   *)
(* JSON encoding are computed and not assumed.                              *)
(***************************************************************************)
EXTENDS Integers, Sequences, FiniteSets, TLC

VARIABLES
    students,     \* StudentService.students: list of Student objects
    courses,      \* CourseService.courses: list of Course objects
    enrollments,  \* EnrollmentService.enrollments: list of Enrollment objects
    files,        \* the data directory: file name -> NoFile or the text written
    last,         \* the last call made on a service or on the file handler and its outcome
    given,        \* per collection, the list last handed to FileHandler.save_* directly
    removedKeys,  \* history: the keys a delete has removed (SpecStore keeps it)
    createdKeys,  \* history, per store: the keys whose create succeeded, in that
                  \* order, less the keys a delete removed since (SpecKeys, SpecList)
    held,         \* the list object a caller got from a service and still holds
    ui,           \* main() and the CLI: where the program stands and what it printed last
    peer          \* the collections of a second StudentService / CourseService
                  \* constructed over the same data directory

vars ==
    <<students, courses, enrollments, files, last, given, removedKeys, createdKeys, held,
      ui, peer>>

-----------------------------------------------------------------------------
(* Python values *)

None == [t |-> "NoneType"]
PyStr(s) == [t |-> "str", v |-> s]
PyInt(n) == [t |-> "int", v |-> n]
\* a float with one decimal digit: PyFloat(855) is 85.5
PyFloat(n) == [t |-> "float", v |-> n]
\* a datetime; only the seconds and microseconds vary, the date is DatePrefix
PyDatetime(s, u) == [t |-> "datetime", sec |-> s, usec |-> u]

IsNone(x) == x.t = "NoneType"
IsStr(x) == x.t = "str"
\* isinstance(x, int)
IsInt(x) == x.t = "int"
\* isinstance(x, (int, float))
IsNumber(x) == x.t \in {"int", "float"}

\* the value of a number in tenths, to compare ints with floats
Tenths(x) == IF x.t = "int" THEN 10 * x.v ELSE x.v

\* Python truthiness of the values the model uses: `not x` is ~Truthy(x)
Truthy(x) ==
    CASE x.t = "NoneType" -> FALSE
      [] x.t = "str" -> Len(x.v) > 0
      [] x.t \in {"int", "float"} -> x.v # 0
      [] OTHER -> TRUE

-----------------------------------------------------------------------------
(* Characters and strings *)

Upper == {"A","B","C","D","E","F","G","H","I","J","K","L","M",
          "N","O","P","Q","R","S","T","U","V","W","X","Y","Z"}
Lower == {"a","b","c","d","e","f","g","h","i","j","k","l","m",
          "n","o","p","q","r","s","t","u","v","w","x","y","z"}
Digit == {"0","1","2","3","4","5","6","7","8","9"}
Whitespace == {" ", "\t", "\n"}

\* str.strip() leaves the empty string exactly when every character is whitespace
StripIsEmpty(s) == \A i \in 1..Len(s) : s[i] \in Whitespace

\* `not v or not v.strip()` of the validate methods (v a str or None)
Missing(x) == ~Truthy(x) \/ StripIsEmpty(x.v)

SubStr(s, a, b) == [i \in 1..(b - a + 1) |-> s[a + i - 1]]
AllIn(s, a, b, C) == \A i \in a..b : s[i] \in C

\* `$` of a Python regular expression also matches before one final newline
MatchEnds(s) == {Len(s)} \cup (IF Len(s) > 0 /\ s[Len(s)] = "\n" THEN {Len(s) - 1} ELSE {})

\* Student._is_valid_email: ^[a-zA-Z0-9._%+-]+@[a-zA-Z0-9.-]+\.[a-zA-Z]{2,}$
EmailLocal == Upper \cup Lower \cup Digit \cup {".", "_", "%", "+", "-"}
EmailDomain == Upper \cup Lower \cup Digit \cup {".", "-"}
MinTld == 2
_is_valid_email(s) ==
    \E at \in 2..Len(s), dot \in 3..Len(s), end \in MatchEnds(s) :
        /\ s[at] = "@"
        /\ AllIn(s, 1, at - 1, EmailLocal)
        /\ dot > at + 1
        /\ s[dot] = "."
        /\ AllIn(s, at + 1, dot - 1, EmailDomain)
        /\ end - dot >= MinTld
        /\ AllIn(s, dot + 1, end, Upper \cup Lower)

\* Course._is_valid_course_code: ^[A-Z]{3}\d{4}$
CodeLetters == 3
CodeDigits == 4
_is_valid_course_code(s) ==
    \E end \in MatchEnds(s) :
        /\ end = CodeLetters + CodeDigits
        /\ AllIn(s, 1, CodeLetters, Upper)
        /\ AllIn(s, CodeLetters + 1, end, Digit)

-----------------------------------------------------------------------------
(* Entities and their validation *)

Student(student_id, name, email, program) ==
    [student_id |-> student_id, name |-> name, email |-> email, program |-> program]

Course(course_code, name, credits, instructor) ==
    [course_code |-> course_code, name |-> name, credits |-> credits,
     instructor |-> instructor]

Enrollment(student_id, course_code, grade, enrollment_date) ==
    [student_id |-> student_id, course_code |-> course_code, grade |-> grade,
     enrollment_date |-> enrollment_date]

MinCredits == 1
MaxCredits == 6
MinGrade == 0
MaxGrade == 100

\* Student.validate: the messages, in the order the checks append them
StudentValidate(s) ==
    (IF Missing(s.student_id) THEN <<"Student ID is required and cannot be empty">> ELSE <<>>)
    \o (IF Missing(s.name) THEN <<"Name is required and cannot be empty">> ELSE <<>>)
    \o (IF Missing(s.email) THEN <<"Email is required and cannot be empty">>
        ELSE IF ~_is_valid_email(s.email.v) THEN <<"Email format is invalid">>
        ELSE <<>>)
    \o (IF Missing(s.program) THEN <<"Program is required and cannot be empty">> ELSE <<>>)

\* Course.validate
CourseValidate(c) ==
    (IF Missing(c.course_code) THEN <<"Course code is required and cannot be empty">>
     ELSE IF ~_is_valid_course_code(c.course_code.v)
          THEN <<"Course code must be in format XXX1234 (three uppercase letters followed by four digits)">>
     ELSE <<>>)
    \o (IF Missing(c.name) THEN <<"Course name is required and cannot be empty">> ELSE <<>>)
    \o (IF ~IsInt(c.credits) THEN <<"Credits must be an integer">>
        ELSE IF ~(MinCredits <= c.credits.v /\ c.credits.v <= MaxCredits)
             THEN <<"Credits must be between 1 and 6">>
        ELSE <<>>)
    \o (IF Missing(c.instructor) THEN <<"Instructor name is required and cannot be empty">>
        ELSE <<>>)

\* Enrollment.validate
EnrollmentValidate(e) ==
    (IF Missing(e.student_id) THEN <<"Student ID is required and cannot be empty">> ELSE <<>>)
    \o (IF Missing(e.course_code) THEN <<"Course code is required and cannot be empty">>
        ELSE <<>>)
    \o (IF IsNone(e.grade) THEN <<>>
        ELSE IF ~IsNumber(e.grade) THEN <<"Grade must be a number">>
        ELSE IF ~(10 * MinGrade <= Tenths(e.grade) /\ Tenths(e.grade) <= 10 * MaxGrade)
             THEN <<"Grade must be between 0 and 100">>
        ELSE <<>>)

-----------------------------------------------------------------------------
(* datetime.isoformat() and datetime.fromisoformat() *)

DigitSeq == <<"0","1","2","3","4","5","6","7","8","9">>
DigitChar(n) == DigitSeq[n + 1]
DigitVal(c) == CHOOSE n \in 0..9 : DigitSeq[n + 1] = c

RECURSIVE Pow10(_)
Pow10(k) == IF k = 0 THEN 1 ELSE 10 * Pow10(k - 1)

\* n written with exactly w decimal digits
Pad(n, w) == [i \in 1..w |-> DigitChar((n \div Pow10(w - i)) % 10)]

RECURSIVE ParseNat(_)
ParseNat(s) ==
    IF Len(s) = 0 THEN 0 ELSE 10 * ParseNat(SubStr(s, 1, Len(s) - 1)) + DigitVal(s[Len(s)])

\* the date, hour and minute of every clock reading of the model
DatePrefix == <<"2","0","2","4","-","0","1","-","1","5","T","1","0",":","3","0",":">>
SecWidth == 2
UsecWidth == 6

\* YYYY-MM-DDTHH:MM:SS, followed by .ffffff when the microseconds are not zero
isoformat(d) ==
    DatePrefix \o Pad(d.sec, SecWidth)
    \o (IF d.usec # 0 THEN <<".">> \o Pad(d.usec, UsecWidth) ELSE <<>>)

fromisoformat(s) ==
    LET p == Len(DatePrefix)
        sec == ParseNat(SubStr(s, p + 1, p + SecWidth))
        usec == IF Len(s) > p + SecWidth
                THEN ParseNat(SubStr(s, p + SecWidth + 2, Len(s)))
                ELSE 0
    IN PyDatetime(sec, usec)

-----------------------------------------------------------------------------
(* json.dumps / json.loads on the values the entities hold *)

JNull == [j |-> "null"]
JString(s) == [j |-> "string", v |-> s]
\* a number literal: 85 is JNumber("int", 85), 85.5 is JNumber("real", 855)
JNumber(lit, n) == [j |-> "number", lit |-> lit, v |-> n]

JsonDumps(x) ==
    CASE x.t = "NoneType" -> JNull
      [] x.t = "str" -> JString(x.v)
      [] x.t = "int" -> JNumber("int", x.v)
      [] x.t = "float" -> JNumber("real", x.v)

JsonLoads(y) ==
    CASE y.j = "null" -> None
      [] y.j = "string" -> PyStr(y.v)
      [] y.j = "number" -> IF y.lit = "int" THEN PyInt(y.v) ELSE PyFloat(y.v)

\* a dict of values <-> a JSON object
DumpsDict(d) == [k \in DOMAIN d |-> JsonDumps(d[k])]
LoadsDict(o) == [k \in DOMAIN o |-> JsonLoads(o[k])]

-----------------------------------------------------------------------------
(* to_dict / from_dict *)

StudentToDict(s) ==
    [student_id |-> s.student_id, name |-> s.name, email |-> s.email,
     program |-> s.program]

StudentFromDict(d) == Student(d.student_id, d.name, d.email, d.program)

CourseToDict(c) ==
    [course_code |-> c.course_code, name |-> c.name, credits |-> c.credits,
     instructor |-> c.instructor]

CourseFromDict(d) == Course(d.course_code, d.name, d.credits, d.instructor)

EnrollmentToDict(e) ==
    [student_id |-> e.student_id, course_code |-> e.course_code, grade |-> e.grade,
     enrollment_date |-> PyStr(isoformat(e.enrollment_date))]

\* from_dict written with `data.get("grade") or None`
EnrollmentFromDict_falsy_grade(d) ==
    Enrollment(d.student_id, d.course_code, IF Truthy(d.grade) THEN d.grade ELSE None,
               fromisoformat(d.enrollment_date.v))

\* every dict the model reads back was written by to_dict, so the
\* enrollment_date key is present and holds a str
EnrollmentFromDict(d) ==
    Enrollment(d.student_id, d.course_code, d.grade, fromisoformat(d.enrollment_date.v))

-----------------------------------------------------------------------------
(* FileHandler *)

StudentsFile == "students.json"
CoursesFile == "courses.json"
EnrollmentsFile == "enrollments.json"
FileNames == {StudentsFile, CoursesFile, EnrollmentsFile}

NoFile == [exists |-> FALSE]

\* the text write_text leaves in a file: the array under its key and the metadata
Envelope(key, items, now) ==
    [exists |-> TRUE, key |-> key, items |-> items,
     metadata |-> [version |-> JString(<<"1", ".", "0">>),
                   last_updated |-> JString(isoformat(now)),
                   count |-> JNumber("int", Len(items))]]

\* data.get(key, []) of a parsed document
GetArray(doc, key) == IF doc.key = key THEN doc.items ELSE <<>>

save_students(fs, list, now) ==
    [fs EXCEPT ![StudentsFile] =
        Envelope("students", [i \in 1..Len(list) |-> DumpsDict(StudentToDict(list[i]))], now)]

load_students(fs) ==
    IF ~fs[StudentsFile].exists THEN <<>>
    ELSE LET arr == GetArray(fs[StudentsFile], "students")
         IN [i \in 1..Len(arr) |-> StudentFromDict(LoadsDict(arr[i]))]

save_courses(fs, list, now) ==
    [fs EXCEPT ![CoursesFile] =
        Envelope("courses", [i \in 1..Len(list) |-> DumpsDict(CourseToDict(list[i]))], now)]

load_courses(fs) ==
    IF ~fs[CoursesFile].exists THEN <<>>
    ELSE LET arr == GetArray(fs[CoursesFile], "courses")
         IN [i \in 1..Len(arr) |-> CourseFromDict(LoadsDict(arr[i]))]

\* save_enrollments with the path of save_students
save_enrollments_wrong_file(fs, list, now) ==
    [fs EXCEPT ![StudentsFile] =
        Envelope("enrollments",
                 [i \in 1..Len(list) |-> DumpsDict(EnrollmentToDict(list[i]))], now)]

save_enrollments(fs, list, now) ==
    [fs EXCEPT ![EnrollmentsFile] =
        Envelope("enrollments",
                 [i \in 1..Len(list) |-> DumpsDict(EnrollmentToDict(list[i]))], now)]

load_enrollments(fs) ==
    IF ~fs[EnrollmentsFile].exists THEN <<>>
    ELSE LET arr == GetArray(fs[EnrollmentsFile], "enrollments")
         IN [i \in 1..Len(arr) |-> EnrollmentFromDict(LoadsDict(arr[i]))]

-----------------------------------------------------------------------------
(* What a call leaves behind: the collection of the service, the data      *)
(* directory, the exception raised (NoError when it returned), the files   *)
(* it wrote with write_text, in order, and the value it returned.          *)

NoError == [type |-> "none"]
\* raise ValueError(f"{msg}: {'; '.join(errors)}"); errors is <<>> for the fixed messages
ValueError(msg, errors) == [type |-> "ValueError", msg |-> msg, errors |-> errors]

PyBool(b) == [t |-> "bool", v |-> b]
PyObj(class, obj) == [t |-> class, obj |-> obj]
PyList(seq) == [t |-> "list", v |-> seq]
\* the float num / den
PyQuot(num, den) == [t |-> "float", num |-> num, den |-> den]

\* a reference to the list a service holds, not a new list: what the holder
\* sees through it is what the service's list holds at that moment
PyAlias(attribute) == [t |-> "list", alias |-> attribute]

Raised(coll, fs, err) ==
    [coll |-> coll, files |-> fs, error |-> err, wrote |-> <<>>, ret |-> None]
Returned(coll, fs, wrote, ret) ==
    [coll |-> coll, files |-> fs, error |-> NoError, wrote |-> wrote, ret |-> ret]

\* list.remove(x) for the object found at index i
RemoveAt(list, i) == [j \in 1..(Len(list) - 1) |-> IF j < i THEN list[j] ELSE list[j + 1]]

-----------------------------------------------------------------------------
(* validate() as a call: it returns the messages, or raises *)

\* x.strip() is reached (x is truthy) and x is not a str: int, float and list
\* have no strip
NoStrip(x) == Truthy(x) /\ ~IsStr(x)

AttributeError ==
    [type |-> "AttributeError", msg |-> "object has no attribute 'strip'", errors |-> <<>>]

\* the call student.validate(): the list of messages, or the exception of the
\* first strip() that fails; no check stops the later ones from being reached
Student_validate(x) ==
    IF NoStrip(x.student_id) \/ NoStrip(x.name) \/ NoStrip(x.email) \/ NoStrip(x.program)
    THEN [error |-> AttributeError, ret |-> None]
    ELSE [error |-> NoError, ret |-> PyList(StudentValidate(x))]

Course_validate(x) ==
    IF NoStrip(x.course_code) \/ NoStrip(x.name) \/ NoStrip(x.instructor)
    THEN [error |-> AttributeError, ret |-> None]
    ELSE [error |-> NoError, ret |-> PyList(CourseValidate(x))]

Enrollment_validate(x) ==
    IF NoStrip(x.student_id) \/ NoStrip(x.course_code)
    THEN [error |-> AttributeError, ret |-> None]
    ELSE [error |-> NoError, ret |-> PyList(EnrollmentValidate(x))]

-----------------------------------------------------------------------------
(* StudentService *)

\* get_student: the index of the first student with that id, 0 for None
get_student(list, student_id) ==
    IF \E i \in 1..Len(list) : list[i].student_id = student_id
    THEN CHOOSE i \in 1..Len(list) :
            /\ list[i].student_id = student_id
            /\ \A j \in 1..(i - 1) : list[j].student_id # student_id
    ELSE 0

\* create_student that appends before it validates
create_student_append_first(list, fs, student_id, name, email, program, now) ==
    IF get_student(list, student_id) # 0
    THEN Raised(list, fs, ValueError("Student with ID already exists.", <<>>))
    ELSE LET student == Student(student_id, name, email, program)
             errors == StudentValidate(student)
             appended == Append(list, student)
         IN IF errors # <<>>
            THEN Raised(appended, fs, ValueError("Invalid student data", errors))
            ELSE Returned(appended, save_students(fs, appended, now),
                          <<StudentsFile>>, PyObj("Student", student))

\* create_student with the validation moved before the duplicate check
create_student_validate_first(list, fs, student_id, name, email, program, now) ==
    LET student == Student(student_id, name, email, program)
        errors == StudentValidate(student)
    IN IF errors # <<>>
       THEN Raised(list, fs, ValueError("Invalid student data", errors))
       ELSE IF get_student(list, student_id) # 0
       THEN Raised(list, fs, ValueError("Student with ID already exists.", <<>>))
       ELSE LET appended == Append(list, student)
            IN Returned(appended, save_students(fs, appended, now),
                        <<StudentsFile>>, PyObj("Student", student))

\* create_student without the duplicate check
create_student_no_duplicate_check(list, fs, student_id, name, email, program, now) ==
    LET student == Student(student_id, name, email, program)
        errors == StudentValidate(student)
    IN IF errors # <<>>
       THEN Raised(list, fs, ValueError("Invalid student data", errors))
       ELSE LET appended == Append(list, student)
            IN Returned(appended, save_students(fs, appended, now),
                        <<StudentsFile>>, PyObj("Student", student))

\* create_student whose error carries the first message only
create_student_first_message(list, fs, student_id, name, email, program, now) ==
    IF get_student(list, student_id) # 0
    THEN Raised(list, fs, ValueError("Student with ID already exists.", <<>>))
    ELSE LET student == Student(student_id, name, email, program)
             errors == StudentValidate(student)
         IN IF errors # <<>>
            THEN Raised(list, fs, ValueError("Invalid student data", <<errors[1]>>))
            ELSE LET appended == Append(list, student)
                 IN Returned(appended, save_students(fs, appended, now),
                             <<StudentsFile>>, PyObj("Student", student))

\* create_student that reads the document again before it looks for the key
create_student_reload(list, fs, student_id, name, email, program, now) ==
    LET current == load_students(fs)
    IN IF get_student(current, student_id) # 0
       THEN Raised(current, fs, ValueError("Student with ID already exists.", <<>>))
       ELSE LET student == Student(student_id, name, email, program)
                errors == StudentValidate(student)
            IN IF errors # <<>>
               THEN Raised(current, fs, ValueError("Invalid student data", errors))
               ELSE LET appended == Append(current, student)
                    IN Returned(appended, save_students(fs, appended, now),
                                <<StudentsFile>>, PyObj("Student", student))

create_student(list, fs, student_id, name, email, program, now) ==
    IF get_student(list, student_id) # 0
    THEN Raised(list, fs, ValueError("Student with ID already exists.", <<>>))
    ELSE LET student == Student(student_id, name, email, program)
             errors == StudentValidate(student)
         IN IF errors # <<>>
            THEN Raised(list, fs, ValueError("Invalid student data", errors))
            ELSE LET appended == Append(list, student)
                 IN Returned(appended, save_students(fs, appended, now),
                             <<StudentsFile>>, PyObj("Student", student))

\* update_student whose revert forgets the email
update_student_partial_revert(list, fs, student_id, name, email, program, now) ==
    LET i == get_student(list, student_id)
    IN IF i = 0
       THEN Raised(list, fs, ValueError("Student with ID not found.", <<>>))
       ELSE LET original == list[i]
                changed == [original EXCEPT
                               !.name = IF IsNone(name) THEN @ ELSE name,
                               !.email = IF IsNone(email) THEN @ ELSE email,
                               !.program = IF IsNone(program) THEN @ ELSE program]
                errors == StudentValidate(changed)
                reverted == [changed EXCEPT !.name = original.name,
                                            !.program = original.program]
            IN IF errors # <<>>
               THEN Raised([list EXCEPT ![i] = reverted], fs,
                           ValueError("Invalid update data", errors))
               ELSE LET updated == [list EXCEPT ![i] = changed]
                    IN Returned(updated, save_students(fs, updated, now),
                                <<StudentsFile>>, PyObj("Student", changed))

\* list_students that hands out self.students itself
list_students_alias(list) == PyAlias("students")

\* list(self.students): a new list of the same objects
list_students(list) == PyList(list)

\* update_student that takes the student out and appends the changed one
update_student_reappend(list, fs, student_id, name, email, program, now) ==
    LET i == get_student(list, student_id)
    IN IF i = 0
       THEN Raised(list, fs, ValueError("Student with ID not found.", <<>>))
       ELSE LET changed == [list[i] EXCEPT
                               !.name = IF IsNone(name) THEN @ ELSE name,
                               !.email = IF IsNone(email) THEN @ ELSE email,
                               !.program = IF IsNone(program) THEN @ ELSE program]
                errors == StudentValidate(changed)
            IN IF errors # <<>>
               THEN Raised(list, fs, ValueError("Invalid update data", errors))
               ELSE LET updated == Append(RemoveAt(list, i), changed)
                    IN Returned(updated, save_students(fs, updated, now),
                                <<StudentsFile>>, PyObj("Student", changed))

update_student(list, fs, student_id, name, email, program, now) ==
    LET i == get_student(list, student_id)
    IN IF i = 0
       THEN Raised(list, fs, ValueError("Student with ID not found.", <<>>))
       ELSE LET original == list[i]
                changed == [original EXCEPT
                               !.name = IF IsNone(name) THEN @ ELSE name,
                               !.email = IF IsNone(email) THEN @ ELSE email,
                               !.program = IF IsNone(program) THEN @ ELSE program]
                errors == StudentValidate(changed)
                reverted == [changed EXCEPT !.name = original.name,
                                            !.email = original.email,
                                            !.program = original.program]
            IN IF Student_validate(changed).error # NoError
               \* validate() raises: the lines that revert are not reached
               THEN Raised([list EXCEPT ![i] = changed], fs, Student_validate(changed).error)
               ELSE IF errors # <<>>
               THEN Raised([list EXCEPT ![i] = reverted], fs,
                           ValueError("Invalid update data", errors))
               ELSE LET updated == [list EXCEPT ![i] = changed]
                    IN Returned(updated, save_students(fs, updated, now),
                                <<StudentsFile>>, PyObj("Student", changed))

\* delete_student that removes with pop() once the key was found
delete_student_pop(list, fs, student_id, now) ==
    LET i == get_student(list, student_id)
    IN IF i = 0
       THEN Returned(list, fs, <<>>, PyBool(FALSE))
       ELSE LET removed == RemoveAt(list, Len(list))
            IN Returned(removed, save_students(fs, removed, now),
                        <<StudentsFile>>, PyBool(TRUE))

delete_student(list, fs, student_id, now) ==
    LET i == get_student(list, student_id)
    IN IF i # 0
       THEN LET removed == RemoveAt(list, i)
            IN Returned(removed, save_students(fs, removed, now),
                        <<StudentsFile>>, PyBool(TRUE))
       ELSE Returned(list, fs, <<>>, PyBool(FALSE))

-----------------------------------------------------------------------------
(* CourseService *)

get_course(list, course_code) ==
    IF \E i \in 1..Len(list) : list[i].course_code = course_code
    THEN CHOOSE i \in 1..Len(list) :
            /\ list[i].course_code = course_code
            /\ \A j \in 1..(i - 1) : list[j].course_code # course_code
    ELSE 0

list_courses(list) == PyList(list)

create_course(list, fs, course_code, name, credits, instructor, now) ==
    IF get_course(list, course_code) # 0
    THEN Raised(list, fs, ValueError("Course with code already exists.", <<>>))
    ELSE LET course == Course(course_code, name, credits, instructor)
             errors == CourseValidate(course)
         IN IF errors # <<>>
            THEN Raised(list, fs, ValueError("Invalid course data", errors))
            ELSE LET appended == Append(list, course)
                 IN Returned(appended, save_courses(fs, appended, now),
                             <<CoursesFile>>, PyObj("Course", course))

update_course(list, fs, course_code, name, credits, instructor, now) ==
    LET i == get_course(list, course_code)
    IN IF i = 0
       THEN Raised(list, fs, ValueError("Course with code not found.", <<>>))
       ELSE LET original == list[i]
                changed == [original EXCEPT
                               !.name = IF IsNone(name) THEN @ ELSE name,
                               !.credits = IF IsNone(credits) THEN @ ELSE credits,
                               !.instructor = IF IsNone(instructor) THEN @ ELSE instructor]
                errors == CourseValidate(changed)
                reverted == [changed EXCEPT !.name = original.name,
                                            !.credits = original.credits,
                                            !.instructor = original.instructor]
            IN IF Course_validate(changed).error # NoError
               \* validate() raises: the lines that revert are not reached
               THEN Raised([list EXCEPT ![i] = changed], fs, Course_validate(changed).error)
               ELSE IF errors # <<>>
               THEN Raised([list EXCEPT ![i] = reverted], fs,
                           ValueError("Invalid update data", errors))
               ELSE LET updated == [list EXCEPT ![i] = changed]
                    IN Returned(updated, save_courses(fs, updated, now),
                                <<CoursesFile>>, PyObj("Course", changed))

delete_course(list, fs, course_code, now) ==
    LET i == get_course(list, course_code)
    IN IF i # 0
       THEN LET removed == RemoveAt(list, i)
            IN Returned(removed, save_courses(fs, removed, now),
                        <<CoursesFile>>, PyBool(TRUE))
       ELSE Returned(list, fs, <<>>, PyBool(FALSE))

-----------------------------------------------------------------------------
(* EnrollmentService *)

\* _get_enrollment: the index of the first record of the pair, 0 for None
_get_enrollment(list, student_id, course_code) ==
    IF \E i \in 1..Len(list) :
          list[i].student_id = student_id /\ list[i].course_code = course_code
    THEN CHOOSE i \in 1..Len(list) :
            /\ list[i].student_id = student_id /\ list[i].course_code = course_code
            /\ \A j \in 1..(i - 1) :
                  ~(list[j].student_id = student_id /\ list[j].course_code = course_code)
    ELSE 0

\* enroll_student without the check of the course
enroll_student_no_course_check(list, studs, crs, fs, student_id, course_code, created, now) ==
    IF get_student(studs, student_id) = 0
    THEN Raised(list, fs, ValueError("Student with ID not found.", <<>>))
    ELSE IF \E i \in 1..Len(list) :
               list[i].student_id = student_id /\ list[i].course_code = course_code
    THEN Raised(list, fs, ValueError("Student is already enrolled in course.", <<>>))
    ELSE LET appended == Append(list, Enrollment(student_id, course_code, None, created))
         IN Returned(appended, save_enrollments(fs, appended, now),
                     <<EnrollmentsFile>>, PyObj("Enrollment", appended[Len(appended)]))

\* enroll_student without the loop that looks for the pair
enroll_student_no_duplicate_check(list, studs, crs, fs, student_id, course_code, created, now) ==
    IF get_student(studs, student_id) = 0
    THEN Raised(list, fs, ValueError("Student with ID not found.", <<>>))
    ELSE IF get_course(crs, course_code) = 0
    THEN Raised(list, fs, ValueError("Course with code not found.", <<>>))
    ELSE LET appended == Append(list, Enrollment(student_id, course_code, None, created))
         IN Returned(appended, save_enrollments(fs, appended, now),
                     <<EnrollmentsFile>>, PyObj("Enrollment", appended[Len(appended)]))

\* enroll_student whose new record starts with the grade 0
enroll_student_zero_grade(list, studs, crs, fs, student_id, course_code, created, now) ==
    IF get_student(studs, student_id) = 0
    THEN Raised(list, fs, ValueError("Student with ID not found.", <<>>))
    ELSE IF get_course(crs, course_code) = 0
    THEN Raised(list, fs, ValueError("Course with code not found.", <<>>))
    ELSE IF \E i \in 1..Len(list) :
               list[i].student_id = student_id /\ list[i].course_code = course_code
    THEN Raised(list, fs, ValueError("Student is already enrolled in course.", <<>>))
    ELSE LET appended == Append(list, Enrollment(student_id, course_code, PyInt(0), created))
         IN Returned(appended, save_enrollments(fs, appended, now),
                     <<EnrollmentsFile>>, PyObj("Enrollment", appended[Len(appended)]))

\* studs and crs are the collections of the student and course services;
\* created is the clock reading of Enrollment.__init__, now that of the save
enroll_student(list, studs, crs, fs, student_id, course_code, created, now) ==
    IF get_student(studs, student_id) = 0
    THEN Raised(list, fs, ValueError("Student with ID not found.", <<>>))
    ELSE IF get_course(crs, course_code) = 0
    THEN Raised(list, fs, ValueError("Course with code not found.", <<>>))
    ELSE IF \E i \in 1..Len(list) :
               list[i].student_id = student_id /\ list[i].course_code = course_code
    THEN Raised(list, fs, ValueError("Student is already enrolled in course.", <<>>))
    ELSE LET enrollment == Enrollment(student_id, course_code, None, created)
             errors == EnrollmentValidate(enrollment)
         IN IF errors # <<>>
            THEN Raised(list, fs, ValueError("Invalid enrollment data", errors))
            ELSE LET appended == Append(list, enrollment)
                 IN Returned(appended, save_enrollments(fs, appended, now),
                             <<EnrollmentsFile>>, PyObj("Enrollment", enrollment))

\* assign_grade that returns without saving
assign_grade_no_save(list, fs, student_id, course_code, grade, now) ==
    LET i == _get_enrollment(list, student_id, course_code)
    IN IF i = 0
       THEN Raised(list, fs, ValueError("Student is not enrolled in course.", <<>>))
       ELSE LET original_grade == list[i].grade
                changed == [list[i] EXCEPT !.grade = grade]
                errors == EnrollmentValidate(changed)
            IN IF errors # <<>>
               THEN Raised([list EXCEPT ![i] = [changed EXCEPT !.grade = original_grade]],
                           fs, ValueError("Invalid grade", errors))
               ELSE Returned([list EXCEPT ![i] = changed], fs, <<>>,
                             PyObj("Enrollment", changed))

\* assign_grade that raises without putting the original grade back
assign_grade_no_revert(list, fs, student_id, course_code, grade, now) ==
    LET i == _get_enrollment(list, student_id, course_code)
    IN IF i = 0
       THEN Raised(list, fs, ValueError("Student is not enrolled in course.", <<>>))
       ELSE LET changed == [list[i] EXCEPT !.grade = grade]
                errors == EnrollmentValidate(changed)
            IN IF errors # <<>>
               THEN Raised([list EXCEPT ![i] = changed], fs, ValueError("Invalid grade", errors))
               ELSE LET updated == [list EXCEPT ![i] = changed]
                    IN Returned(updated, save_enrollments(fs, updated, now),
                                <<EnrollmentsFile>>, PyObj("Enrollment", changed))

assign_grade(list, fs, student_id, course_code, grade, now) ==
    LET i == _get_enrollment(list, student_id, course_code)
    IN IF i = 0
       THEN Raised(list, fs, ValueError("Student is not enrolled in course.", <<>>))
       ELSE LET original_grade == list[i].grade
                changed == [list[i] EXCEPT !.grade = grade]
                errors == EnrollmentValidate(changed)
            IN IF errors # <<>>
               THEN Raised([list EXCEPT ![i] = [changed EXCEPT !.grade = original_grade]],
                           fs, ValueError("Invalid grade", errors))
               ELSE LET updated == [list EXCEPT ![i] = changed]
                    IN Returned(updated, save_enrollments(fs, updated, now),
                                <<EnrollmentsFile>>, PyObj("Enrollment", changed))

\* unenroll_student that drops every record of the student
unenroll_student_every_course(list, fs, student_id, course_code, now) ==
    LET i == _get_enrollment(list, student_id, course_code)
        keep(e) == e.student_id # student_id
    IN IF i # 0
       THEN LET removed == SelectSeq(list, keep)
            IN Returned(removed, save_enrollments(fs, removed, now),
                        <<EnrollmentsFile>>, PyBool(TRUE))
       ELSE Returned(list, fs, <<>>, PyBool(FALSE))

unenroll_student(list, fs, student_id, course_code, now) ==
    LET i == _get_enrollment(list, student_id, course_code)
    IN IF i # 0
       THEN LET removed == RemoveAt(list, i)
            IN Returned(removed, save_enrollments(fs, removed, now),
                        <<EnrollmentsFile>>, PyBool(TRUE))
       ELSE Returned(list, fs, <<>>, PyBool(FALSE))

\* a list comprehension [e for e in list if keep(e)] is SelectSeq(list, keep)
get_student_enrollments(list, student_id) ==
    LET keep(e) == e.student_id = student_id IN SelectSeq(list, keep)

get_course_enrollments(list, course_code) ==
    LET keep(e) == e.course_code = course_code IN SelectSeq(list, keep)

\* sum(e.grade for e in list), in tenths
RECURSIVE SumGrades(_)
SumGrades(list) ==
    IF Len(list) = 0 THEN 0 ELSE Tenths(Head(list).grade) + SumGrades(Tail(list))

\* the average with `if e.grade` for `if e.grade is not None`
Average_truthy_grade(matching) ==
    LET graded(e) == Truthy(e.grade)
        graded_enrollments == SelectSeq(matching, graded)
    IN IF Len(graded_enrollments) = 0
       THEN PyQuot(0, 1)
       ELSE PyQuot(SumGrades(graded_enrollments), 10 * Len(graded_enrollments))

\* total / len(graded_enrollments), or 0.0
Average(matching) ==
    LET graded(e) == ~IsNone(e.grade)
        graded_enrollments == SelectSeq(matching, graded)
    IN IF Len(graded_enrollments) = 0
       THEN PyQuot(0, 1)
       ELSE PyQuot(SumGrades(graded_enrollments), 10 * Len(graded_enrollments))

get_student_gpa(list, student_id) == Average(get_student_enrollments(list, student_id))

get_course_average(list, course_code) == Average(get_course_enrollments(list, course_code))

-----------------------------------------------------------------------------
(* The state machine: one action per public method *)

\* the record of a call: the method, its key arguments and what it left behind
Call(op, student_id, course_code, r) ==
    [op |-> op, student_id |-> student_id, course_code |-> course_code,
     error |-> r.error, wrote |-> r.wrote, ret |-> r.ret]

NoKeys == [students |-> <<>>, courses |-> <<>>]

\* main() has not been started
NoUi == [pc |-> "none", choice |-> None, out |-> <<>>]

NoLists == [students |-> <<>>, courses |-> <<>>, enrollments |-> <<>>]

\* main(): the three services are constructed over a data directory that
\* holds no document yet
Init ==
    /\ files = [f \in FileNames |-> NoFile]
    /\ students = load_students(files)
    /\ courses = load_courses(files)
    /\ enrollments = load_enrollments(files)
    /\ last = Call("__init__", None, None, Returned(<<>>, files, <<>>, None))
    /\ given = NoLists
    /\ removedKeys = {}
    /\ createdKeys = NoKeys
    /\ held = None
    /\ ui = NoUi
    /\ peer = NoLists

\* the program is started again over the same data directory
Restart ==
    /\ students' = load_students(files)
    /\ courses' = load_courses(files)
    /\ enrollments' = load_enrollments(files)
    /\ last' = Call("__init__", None, None, Returned(<<>>, files, <<>>, None))
    /\ UNCHANGED <<files, given>>

CreateStudent(student_id, name, email, program, now) ==
    LET r == create_student(students, files, student_id, name, email, program, now)
    IN /\ students' = r.coll
       /\ files' = r.files
       /\ last' = Call("create_student", student_id, None, r)
       /\ UNCHANGED <<courses, enrollments, given>>

UpdateStudent(student_id, name, email, program, now) ==
    LET r == update_student(students, files, student_id, name, email, program, now)
    IN /\ students' = r.coll
       /\ files' = r.files
       /\ last' = Call("update_student", student_id, None, r)
       /\ UNCHANGED <<courses, enrollments, given>>

\* delete_student that also drops the records of the student
DeleteStudentCascade(student_id, now) ==
    LET r == delete_student(students, files, student_id, now)
        keep(e) == e.student_id # student_id
        kept == SelectSeq(enrollments, keep)
    IN /\ students' = r.coll
       /\ enrollments' = kept
       /\ files' = save_enrollments(r.files, kept, now)
       /\ last' = Call("delete_student", student_id, None, r)
       /\ UNCHANGED <<courses, given>>

DeleteStudent(student_id, now) ==
    LET r == delete_student(students, files, student_id, now)
    IN /\ students' = r.coll
       /\ files' = r.files
       /\ last' = Call("delete_student", student_id, None, r)
       /\ UNCHANGED <<courses, enrollments, given>>

CreateCourse(course_code, name, credits, instructor, now) ==
    LET r == create_course(courses, files, course_code, name, credits, instructor, now)
    IN /\ courses' = r.coll
       /\ files' = r.files
       /\ last' = Call("create_course", None, course_code, r)
       /\ UNCHANGED <<students, enrollments, given>>

UpdateCourse(course_code, name, credits, instructor, now) ==
    LET r == update_course(courses, files, course_code, name, credits, instructor, now)
    IN /\ courses' = r.coll
       /\ files' = r.files
       /\ last' = Call("update_course", None, course_code, r)
       /\ UNCHANGED <<students, enrollments, given>>

DeleteCourse(course_code, now) ==
    LET r == delete_course(courses, files, course_code, now)
    IN /\ courses' = r.coll
       /\ files' = r.files
       /\ last' = Call("delete_course", None, course_code, r)
       /\ UNCHANGED <<students, enrollments, given>>

GetStudent(student_id) ==
    LET i == get_student(students, student_id)
    IN /\ last' = Call("get_student", student_id, None,
                       Returned(students, files, <<>>,
                                IF i = 0 THEN None ELSE PyObj("Student", students[i])))
       /\ UNCHANGED <<students, courses, enrollments, files, given>>

GetCourse(course_code) ==
    LET i == get_course(courses, course_code)
    IN /\ last' = Call("get_course", None, course_code,
                       Returned(courses, files, <<>>,
                                IF i = 0 THEN None ELSE PyObj("Course", courses[i])))
       /\ UNCHANGED <<students, courses, enrollments, files, given>>

\* the caller keeps the list it is given
ListStudents ==
    /\ last' = Call("list_students", None, None,
                    Returned(students, files, <<>>, list_students(students)))
    /\ held' = last'.ret
    /\ UNCHANGED <<students, courses, enrollments, files, given>>

ListCourses ==
    /\ last' = Call("list_courses", None, None,
                    Returned(courses, files, <<>>, list_courses(courses)))
    /\ held' = last'.ret
    /\ UNCHANGED <<students, courses, enrollments, files, given>>

\* the elements of a list object: those of the service's list for a reference
Deref(x) ==
    IF "alias" \in DOMAIN x
    THEN (IF x.alias = "students" THEN students ELSE courses)
    ELSE x.v

EnrollStudent(student_id, course_code, created, now) ==
    LET r == enroll_student(enrollments, students, courses, files,
                            student_id, course_code, created, now)
    IN /\ enrollments' = r.coll
       /\ files' = r.files
       /\ last' = Call("enroll_student", student_id, course_code, r)
       /\ UNCHANGED <<students, courses, given>>

\* AssignGrade that first looks the student up in the student store
AssignGradeKnownStudent(student_id, course_code, grade, now) ==
    LET r == IF get_student(students, student_id) = 0
             THEN Raised(enrollments, files, ValueError("Student with ID not found.", <<>>))
             ELSE assign_grade(enrollments, files, student_id, course_code, grade, now)
    IN /\ enrollments' = r.coll
       /\ files' = r.files
       /\ last' = Call("assign_grade", student_id, course_code, r)
       /\ UNCHANGED <<students, courses, given>>

AssignGrade(student_id, course_code, grade, now) ==
    LET r == assign_grade(enrollments, files, student_id, course_code, grade, now)
    IN /\ enrollments' = r.coll
       /\ files' = r.files
       /\ last' = Call("assign_grade", student_id, course_code, r)
       /\ UNCHANGED <<students, courses, given>>

UnenrollStudent(student_id, course_code, now) ==
    LET r == unenroll_student(enrollments, files, student_id, course_code, now)
    IN /\ enrollments' = r.coll
       /\ files' = r.files
       /\ last' = Call("unenroll_student", student_id, course_code, r)
       /\ UNCHANGED <<students, courses, given>>

GetStudentEnrollments(student_id) ==
    /\ last' = Call("get_student_enrollments", student_id, None,
                    Returned(enrollments, files, <<>>,
                             PyList(get_student_enrollments(enrollments, student_id))))
    /\ UNCHANGED <<students, courses, enrollments, files, given>>

GetCourseEnrollments(course_code) ==
    /\ last' = Call("get_course_enrollments", None, course_code,
                    Returned(enrollments, files, <<>>,
                             PyList(get_course_enrollments(enrollments, course_code))))
    /\ UNCHANGED <<students, courses, enrollments, files, given>>

GetStudentGpa(student_id) ==
    /\ last' = Call("get_student_gpa", student_id, None,
                    Returned(enrollments, files, <<>>,
                             get_student_gpa(enrollments, student_id)))
    /\ UNCHANGED <<students, courses, enrollments, files, given>>

GetCourseAverage(course_code) ==
    /\ last' = Call("get_course_average", None, course_code,
                    Returned(enrollments, files, <<>>,
                             get_course_average(enrollments, course_code)))
    /\ UNCHANGED <<students, courses, enrollments, files, given>>

-----------------------------------------------------------------------------
(* The arguments the calls are made with *)

S001 == PyStr(<<"S","0","0","1">>)
S002 == PyStr(<<"S","0","0","2">>)
CSC1234 == PyStr(<<"C","S","C","1","2","3","4">>)
MAT2000 == PyStr(<<"M","A","T","2","0","0","0">>)
Ann == PyStr(<<"A","n","n">>)
Bob == PyStr(<<"B","o","b">>)
Empty == PyStr(<<>>)
Spaces == PyStr(<<" ", " ">>)
AnnMail == PyStr(<<"a","n","n","@","x",".","i","o">>)
BobMail == PyStr(<<"b","o","b","@","u","n","i",".","e","d","u">>)
NoTldMail == PyStr(<<"a","n","n","@","x">>)
ProgCS == PyStr(<<"C","S">>)
ProgMath == PyStr(<<"M","a","t","h">>)
Intro == PyStr(<<"I","n","t","r","o">>)
Algebra == PyStr(<<"A","l","g","e","b","r","a">>)
DrSmith == PyStr(<<"D","r",".", " ", "S","m","i","t","h">>)
DrJones == PyStr(<<"D","r",".", " ", "J","o","n","e","s">>)

StudentIds == {S001, S002}
CourseCodes == {CSC1234, MAT2000}

\* the clock reading datetime.now() returns in Spec and SpecStore
Instants == {PyDatetime(7, 250000)}

-----------------------------------------------------------------------------------------------------------------------------------------------------
(* Spec: the three services together. Both students can be created, one of *)
(* the two courses can; every enrollment call is made for every pair.      *)

\* grades handed to assign_grade: the two ends of the range, and just outside
GradeArgs == {PyInt(0), PyInt(100), PyInt(101), PyFloat(-1), PyFloat(1001)}

\* a step of Spec keeps no history
Plain(A) == A /\ UNCHANGED <<removedKeys, createdKeys, held, ui, peer>>

Next ==
    \/ Plain(Restart)
    \/ \E id \in StudentIds, name \in {Ann, Empty}, email \in {AnnMail, NoTldMail},
          now \in Instants :
          Plain(CreateStudent(id, name, email, ProgCS, now))
    \/ \E id \in StudentIds, name \in {None, Ann}, email \in {None, NoTldMail},
          now \in Instants :
          Plain(UpdateStudent(id, name, email, None, now))
    \/ \E id \in StudentIds, now \in Instants : Plain(DeleteStudent(id, now))
    \/ \E code \in {CSC1234}, credits \in {PyInt(3), PyInt(7)}, now \in Instants :
          Plain(CreateCourse(code, Intro, credits, DrSmith, now))
    \/ \E code \in CourseCodes, credits \in {PyInt(3), PyInt(0)}, now \in Instants :
          Plain(UpdateCourse(code, None, credits, None, now))
    \/ \E code \in CourseCodes, now \in Instants : Plain(DeleteCourse(code, now))
    \/ \E id \in StudentIds, code \in CourseCodes, created \in Instants, now \in Instants :
          Plain(EnrollStudent(id, code, created, now))
    \/ \E id \in StudentIds, code \in CourseCodes, grade \in GradeArgs, now \in Instants :
          Plain(AssignGrade(id, code, grade, now))
    \/ \E id \in StudentIds, code \in CourseCodes, now \in Instants :
          Plain(UnenrollStudent(id, code, now))
    \/ \E id \in StudentIds : Plain(GetStudentEnrollments(id))
    \/ \E code \in CourseCodes : Plain(GetCourseEnrollments(code))
    \/ \E id \in StudentIds : Plain(GetStudentGpa(id))
    \/ \E code \in CourseCodes : Plain(GetCourseAverage(code))

Spec == Init /\ [][Next]_vars

-----------------------------------------------------------------------------
(* SpecStore: the student and the course service alone, with every field   *)
(* of an entity taking valid and invalid values, and the history of the    *)
(* keys removed.                                                           *)

\* a delete that returned True has removed its key
Tracked(A, key) ==
    /\ A
    /\ removedKeys' = IF last'.ret = PyBool(TRUE) THEN removedKeys \cup {key} ELSE removedKeys
    /\ UNCHANGED <<createdKeys, held, ui, peer>>

\* (name, email, program) of create_student: valid; every field invalid;
\* only the email invalid
StudentArgs == {<<Ann, AnnMail, ProgCS>>, <<Empty, NoTldMail, Spaces>>,
                <<Ann, NoTldMail, ProgCS>>}
\* (name, email, program) of update_student, None for a field not provided:
\* nothing; a new name; a new name and email; a valid name with an invalid
\* email; an invalid name and program
StudentChanges == {<<None, None, None>>, <<Bob, None, None>>, <<Bob, BobMail, None>>,
                   <<Bob, NoTldMail, None>>, <<Spaces, None, Empty>>}
\* (name, credits, instructor) of create_course
CourseArgs == {<<Intro, PyInt(3), DrSmith>>, <<Spaces, PyInt(7), Empty>>,
               <<Intro, PyStr(<<"3">>), DrSmith>>}
\* (name, credits, instructor) of update_course
CourseChanges == {<<None, None, None>>, <<None, PyInt(6), None>>,
                  <<Algebra, PyInt(0), None>>, <<Empty, None, DrJones>>}

NextStore ==
    \/ Plain(Restart)
    \/ \E id \in StudentIds, a \in StudentArgs, now \in Instants :
          Plain(CreateStudent(id, a[1], a[2], a[3], now))
    \/ \E id \in StudentIds, a \in StudentChanges, now \in Instants :
          Plain(UpdateStudent(id, a[1], a[2], a[3], now))
    \/ \E id \in StudentIds, now \in Instants : Tracked(DeleteStudent(id, now), id)
    \/ \E code \in {CSC1234}, a \in CourseArgs, now \in Instants :
          Plain(CreateCourse(code, a[1], a[2], a[3], now))
    \/ \E code \in CourseCodes, a \in CourseChanges, now \in Instants :
          Plain(UpdateCourse(code, a[1], a[2], a[3], now))
    \/ \E code \in CourseCodes, now \in Instants : Tracked(DeleteCourse(code, now), code)

SpecStore == Init /\ [][NextStore]_vars

-----------------------------------------------------------------------------
(* SpecFile: the file handler alone, called directly with lists of         *)
(* entities; it never validates what it is given.                          *)

SaveStudents(list, now) ==
    /\ files' = save_students(files, list, now)
    /\ given' = [given EXCEPT !.students = list]
    /\ last' = Call("save_students", None, None,
                    Returned(<<>>, files', <<StudentsFile>>, None))
    /\ UNCHANGED <<students, courses, enrollments, removedKeys, createdKeys, held, ui, peer>>

LoadStudents ==
    /\ last' = Call("load_students", None, None,
                    Returned(<<>>, files, <<>>, PyList(load_students(files))))
    /\ UNCHANGED <<students, courses, enrollments, files, given, removedKeys, createdKeys, held, ui, peer>>

SaveCourses(list, now) ==
    /\ files' = save_courses(files, list, now)
    /\ given' = [given EXCEPT !.courses = list]
    /\ last' = Call("save_courses", None, None,
                    Returned(<<>>, files', <<CoursesFile>>, None))
    /\ UNCHANGED <<students, courses, enrollments, removedKeys, createdKeys, held, ui, peer>>

LoadCourses ==
    /\ last' = Call("load_courses", None, None,
                    Returned(<<>>, files, <<>>, PyList(load_courses(files))))
    /\ UNCHANGED <<students, courses, enrollments, files, given, removedKeys, createdKeys, held, ui, peer>>

SaveEnrollments(list, now) ==
    /\ files' = save_enrollments(files, list, now)
    /\ given' = [given EXCEPT !.enrollments = list]
    /\ last' = Call("save_enrollments", None, None,
                    Returned(<<>>, files', <<EnrollmentsFile>>, None))
    /\ UNCHANGED <<students, courses, enrollments, removedKeys, createdKeys, held, ui, peer>>

LoadEnrollments ==
    /\ last' = Call("load_enrollments", None, None,
                    Returned(<<>>, files, <<>>, PyList(load_enrollments(files))))
    /\ UNCHANGED <<students, courses, enrollments, files, given, removedKeys, createdKeys, held, ui, peer>>

\* the longest list handed to a save
MaxListLen == 2

Lists(pool) == UNION {[1..n -> pool] : n \in 0..MaxListLen}

StudentPool == {Student(S001, Ann, AnnMail, ProgCS), Student(S002, Empty, NoTldMail, Spaces)}
CoursePool == {Course(CSC1234, Intro, PyInt(3), DrSmith)}
\* no grade, the grade 0, a grade with a fraction; microseconds zero, six
\* digits, one digit
EnrollmentPool ==
    {Enrollment(S001, CSC1234, None, PyDatetime(7, 0)),
     Enrollment(S001, MAT2000, PyInt(0), PyDatetime(59, 250000)),
     Enrollment(S002, CSC1234, PyFloat(855), PyDatetime(30, 5))}

NextFile ==
    \/ \E list \in Lists(StudentPool), now \in Instants : SaveStudents(list, now)
    \/ LoadStudents
    \/ \E list \in Lists(CoursePool), now \in Instants : SaveCourses(list, now)
    \/ LoadCourses
    \/ \E list \in Lists(EnrollmentPool), now \in Instants : SaveEnrollments(list, now)
    \/ LoadEnrollments

SpecFile == Init /\ [][NextFile]_vars

-----------------------------------------------------------------------------
(* SpecKeys: one store at a time, three keys, and the history of the keys  *)
(* created: the caller works on the student service while the course       *)
(* service holds nothing, and the other way round.                         *)

S003 == PyStr(<<"S","0","0","3">>)
PHY3000 == PyStr(<<"P","H","Y","3","0","0","0">>)
ThreeStudentIds == {S001, S002, S003}
ThreeCourseCodes == {CSC1234, MAT2000, PHY3000}

RECURSIVE Without(_, _)
\* the sequence of keys less the key k
Without(keys, k) ==
    IF keys = <<>> THEN <<>>
    ELSE IF keys[1] = k THEN Without(Tail(keys), k)
    ELSE <<keys[1]>> \o Without(Tail(keys), k)

\* createdKeys after the call that last' records
Recorded ==
    CASE last'.op = "create_student" /\ last'.error = NoError ->
            [createdKeys EXCEPT !.students = Append(@, last'.student_id)]
      [] last'.op = "delete_student" /\ last'.ret = PyBool(TRUE) ->
            [createdKeys EXCEPT !.students = Without(@, last'.student_id)]
      [] last'.op = "create_course" /\ last'.error = NoError ->
            [createdKeys EXCEPT !.courses = Append(@, last'.course_code)]
      [] last'.op = "delete_course" /\ last'.ret = PyBool(TRUE) ->
            [createdKeys EXCEPT !.courses = Without(@, last'.course_code)]
      [] OTHER -> createdKeys

\* a call on a service, with the history kept
Hist(A) == A /\ createdKeys' = Recorded /\ UNCHANGED <<removedKeys, held, ui, peer>>

\* (name, email, program) of create_student: valid; the email invalid
KeyStudentArgs == {<<Ann, AnnMail, ProgCS>>, <<Ann, NoTldMail, ProgCS>>}
\* (name, email, program) of update_student: nothing; a new name; a blank name
KeyStudentChanges == {<<None, None, None>>, <<Bob, None, None>>, <<Spaces, None, None>>}
\* (name, credits, instructor) of create_course: valid; the credits invalid
KeyCourseArgs == {<<Intro, PyInt(3), DrSmith>>, <<Intro, PyInt(7), DrSmith>>}
\* (name, credits, instructor) of update_course: nothing; new credits; credits 0
KeyCourseChanges == {<<None, None, None>>, <<None, PyInt(6), None>>, <<None, PyInt(0), None>>}

NextKeys ==
    \/ Hist(Restart)
    \/ /\ courses = <<>>
       /\ \/ \E id \in ThreeStudentIds, a \in KeyStudentArgs, now \in Instants :
                Hist(CreateStudent(id, a[1], a[2], a[3], now))
          \/ \E id \in ThreeStudentIds, a \in KeyStudentChanges, now \in Instants :
                Hist(UpdateStudent(id, a[1], a[2], a[3], now))
          \/ \E id \in ThreeStudentIds, now \in Instants : Hist(DeleteStudent(id, now))
          \/ \E id \in ThreeStudentIds : Hist(GetStudent(id))
    \/ /\ students = <<>>
       /\ \/ \E code \in ThreeCourseCodes, a \in KeyCourseArgs, now \in Instants :
                Hist(CreateCourse(code, a[1], a[2], a[3], now))
          \/ \E code \in ThreeCourseCodes, a \in KeyCourseChanges, now \in Instants :
                Hist(UpdateCourse(code, a[1], a[2], a[3], now))
          \/ \E code \in ThreeCourseCodes, now \in Instants : Hist(DeleteCourse(code, now))
          \/ \E code \in ThreeCourseCodes : Hist(GetCourse(code))

SpecKeys == Init /\ [][NextKeys]_vars

-----------------------------------------------------------------------------
(* SpecList: creates, deletes and lists on one store at a time; the caller *)
(* keeps the list the last list_students / list_courses gave it.  No       *)
(* update is made: list() copies the list, not the objects in it.          *)

\* a list call, with the history kept
HistList(A) == A /\ createdKeys' = Recorded /\ UNCHANGED <<removedKeys, ui, peer>>

NextList ==
    \/ /\ courses = <<>>
       /\ \/ \E id \in ThreeStudentIds, a \in KeyStudentArgs, now \in Instants :
                Hist(CreateStudent(id, a[1], a[2], a[3], now))
          \/ \E id \in ThreeStudentIds, now \in Instants : Hist(DeleteStudent(id, now))
          \/ HistList(ListStudents)
    \/ /\ students = <<>>
       /\ \/ \E code \in ThreeCourseCodes, a \in KeyCourseArgs, now \in Instants :
                Hist(CreateCourse(code, a[1], a[2], a[3], now))
          \/ \E code \in ThreeCourseCodes, now \in Instants : Hist(DeleteCourse(code, now))
          \/ HistList(ListCourses)

SpecList == Init /\ [][NextList]_vars

-----------------------------------------------------------------------------
(* SpecEnroll: the enrollment service over a data directory in which an    *)
(* earlier run has left two students and two courses.                      *)

TwoStudents == <<Student(S001, Ann, AnnMail, ProgCS), Student(S002, Bob, BobMail, ProgMath)>>
TwoCourses == <<Course(CSC1234, Intro, PyInt(3), DrSmith),
                Course(MAT2000, Algebra, PyInt(4), DrJones)>>

InitEnroll ==
    /\ \E now \in Instants :
          files = save_courses(save_students([f \in FileNames |-> NoFile], TwoStudents, now),
                               TwoCourses, now)
    /\ students = load_students(files)
    /\ courses = load_courses(files)
    /\ enrollments = load_enrollments(files)
    /\ last = Call("__init__", None, None, Returned(<<>>, files, <<>>, None))
    /\ given = NoLists
    /\ removedKeys = {}
    /\ createdKeys = NoKeys
    /\ held = None
    /\ ui = NoUi
    /\ peer = NoLists

\* the pairs enrolled: two courses of one student, two students of one course
EnrollPairs == {<<S001, CSC1234>>, <<S001, MAT2000>>, <<S002, CSC1234>>}
\* the grade 0, a grade with a fraction, a grade above 100
EnrollGrades == {PyInt(0), PyFloat(905), PyInt(101)}

NextEnroll ==
    \/ Plain(Restart)
    \/ \E p \in EnrollPairs, created \in Instants, now \in Instants :
          Plain(EnrollStudent(p[1], p[2], created, now))
    \/ \E p \in EnrollPairs, grade \in EnrollGrades, now \in Instants :
          Plain(AssignGrade(p[1], p[2], grade, now))
    \/ \E id \in StudentIds, code \in CourseCodes, now \in Instants :
          Plain(UnenrollStudent(id, code, now))
    \/ \E id \in StudentIds : Plain(GetStudentGpa(id))
    \/ \E code \in CourseCodes : Plain(GetCourseAverage(code))

SpecEnroll == InitEnroll /\ [][NextEnroll]_vars

-----------------------------------------------------------------------------
(* SpecLetter: Enrollment.calculate_letter_grade on a stored enrollment    *)
(* with each grade assign_grade can have stored as an int, or none.        *)

LetterAPlus == PyStr(<<"A", "+">>)
LetterA == PyStr(<<"A">>)
LetterBPlus == PyStr(<<"B", "+">>)
LetterB == PyStr(<<"B">>)
LetterCPlus == PyStr(<<"C", "+">>)
LetterC == PyStr(<<"C">>)
LetterDPlus == PyStr(<<"D", "+">>)
LetterD == PyStr(<<"D">>)
LetterF == PyStr(<<"F">>)
LetterNA == PyStr(<<"N", "/", "A">>)

\* calculate_letter_grade with `>` for `>=`
calculate_letter_grade_exclusive(e) ==
    IF IsNone(e.grade) THEN LetterNA
    ELSE IF Tenths(e.grade) > 900 THEN LetterAPlus
    ELSE IF Tenths(e.grade) > 850 THEN LetterA
    ELSE IF Tenths(e.grade) > 800 THEN LetterBPlus
    ELSE IF Tenths(e.grade) > 750 THEN LetterB
    ELSE IF Tenths(e.grade) > 700 THEN LetterCPlus
    ELSE IF Tenths(e.grade) > 650 THEN LetterC
    ELSE IF Tenths(e.grade) > 600 THEN LetterDPlus
    ELSE IF Tenths(e.grade) > 550 THEN LetterD
    ELSE LetterF

\* the grade is compared in tenths: 90 is 900
calculate_letter_grade(e) ==
    IF IsNone(e.grade) THEN LetterNA
    ELSE IF Tenths(e.grade) >= 900 THEN LetterAPlus
    ELSE IF Tenths(e.grade) >= 850 THEN LetterA
    ELSE IF Tenths(e.grade) >= 800 THEN LetterBPlus
    ELSE IF Tenths(e.grade) >= 750 THEN LetterB
    ELSE IF Tenths(e.grade) >= 700 THEN LetterCPlus
    ELSE IF Tenths(e.grade) >= 650 THEN LetterC
    ELSE IF Tenths(e.grade) >= 600 THEN LetterDPlus
    ELSE IF Tenths(e.grade) >= 550 THEN LetterD
    ELSE LetterF

\* the caller asks the letter of the i-th enrollment
CalculateLetterGrade(i) ==
    /\ last' = Call("calculate_letter_grade", enrollments[i].student_id,
                    enrollments[i].course_code,
                    Returned(enrollments, files, <<>>, calculate_letter_grade(enrollments[i])))
    /\ UNCHANGED <<students, courses, enrollments, files, given>>

\* the grades stored: none, and every int validate() accepts
StoredGrades == {None} \cup {PyInt(n) : n \in MinGrade..MaxGrade}

InitLetter ==
    /\ \E grade \in StoredGrades, created \in Instants, now \in Instants :
          files = save_enrollments(
                     save_courses(save_students([f \in FileNames |-> NoFile], TwoStudents, now),
                                  TwoCourses, now),
                     <<Enrollment(S001, CSC1234, grade, created)>>, now)
    /\ students = load_students(files)
    /\ courses = load_courses(files)
    /\ enrollments = load_enrollments(files)
    /\ last = Call("__init__", None, None, Returned(<<>>, files, <<>>, None))
    /\ given = NoLists
    /\ removedKeys = {}
    /\ createdKeys = NoKeys
    /\ held = None
    /\ ui = NoUi
    /\ peer = NoLists

NextLetter == \E i \in 1..Len(enrollments) : Plain(CalculateLetterGrade(i))

SpecLetter == InitLetter /\ [][NextLetter]_vars

-----------------------------------------------------------------------------
(* SpecSearch: search_students and search_courses over collections an      *)
(* earlier run has left, in every order.                                   *)

UpperSeq == <<"A","B","C","D","E","F","G","H","I","J","K","L","M",
              "N","O","P","Q","R","S","T","U","V","W","X","Y","Z">>
LowerSeq == <<"a","b","c","d","e","f","g","h","i","j","k","l","m",
              "n","o","p","q","r","s","t","u","v","w","x","y","z">>

\* str.lower() on the characters of the model
lower(s) ==
    [i \in 1..Len(s) |->
        IF s[i] \in Upper
        THEN LowerSeq[CHOOSE n \in 1..Len(UpperSeq) : UpperSeq[n] = s[i]]
        ELSE s[i]]

\* `needle in hay` of two str
Contains(needle, hay) ==
    \E k \in 0..(Len(hay) - Len(needle)) : SubStr(hay, k + 1, k + Len(needle)) = needle

\* search_students that does not lower the name of the student
search_students_name_as_stored(list, name, program) ==
    LET byName(x) == Contains(lower(name.v), x.name.v)
        byProgram(x) == x.program = program
        named == IF Truthy(name) THEN SelectSeq(list, byName) ELSE list
        results == IF Truthy(program) THEN SelectSeq(named, byProgram) ELSE named
    IN IF ~Truthy(name) /\ ~Truthy(program) THEN PyAlias("students") ELSE PyList(results)

\* search_students that always builds a new list
search_students_new_list(list, name, program) ==
    LET byName(x) == Contains(lower(name.v), lower(x.name.v))
        byProgram(x) == x.program = program
        named == IF Truthy(name) THEN SelectSeq(list, byName) ELSE list
        results == IF Truthy(program) THEN SelectSeq(named, byProgram) ELSE named
    IN PyList(results)

\* results starts as self.students and is replaced by a new list by each
\* criterion that is truthy: with none, the list returned is self.students
search_students(list, name, program) ==
    LET byName(x) == Contains(lower(name.v), lower(x.name.v))
        byProgram(x) == x.program = program
        named == IF Truthy(name) THEN SelectSeq(list, byName) ELSE list
        results == IF Truthy(program) THEN SelectSeq(named, byProgram) ELSE named
    IN IF ~Truthy(name) /\ ~Truthy(program) THEN PyAlias("students") ELSE PyList(results)

search_courses(list, course_code, name, instructor) ==
    LET byCode(x) == Contains(lower(course_code.v), lower(x.course_code.v))
        byName(x) == Contains(lower(name.v), lower(x.name.v))
        byInstructor(x) == Contains(lower(instructor.v), lower(x.instructor.v))
        coded == IF Truthy(course_code) THEN SelectSeq(list, byCode) ELSE list
        named == IF Truthy(name) THEN SelectSeq(coded, byName) ELSE coded
        results == IF Truthy(instructor) THEN SelectSeq(named, byInstructor) ELSE named
    IN IF ~Truthy(course_code) /\ ~Truthy(name) /\ ~Truthy(instructor)
       THEN PyAlias("courses")
       ELSE PyList(results)

\* the record of a search: the method, its criteria and what it left behind
Searched(op, criteria, r) ==
    [op |-> op, student_id |-> None, course_code |-> None, criteria |-> criteria,
     error |-> r.error, wrote |-> r.wrote, ret |-> r.ret]

\* the caller keeps the list it is given
SearchStudents(name, program) ==
    /\ last' = Searched("search_students", <<name, program>>,
                        Returned(students, files, <<>>,
                                 search_students(students, name, program)))
    /\ held' = last'.ret
    /\ UNCHANGED <<students, courses, enrollments, files, given>>

SearchCourses(course_code, name, instructor) ==
    /\ last' = Searched("search_courses", <<course_code, name, instructor>>,
                        Returned(courses, files, <<>>,
                                 search_courses(courses, course_code, name, instructor)))
    /\ held' = last'.ret
    /\ UNCHANGED <<students, courses, enrollments, files, given>>

AnnaUpper == PyStr(<<"A","N","N","A">>)
ProgCsLower == PyStr(<<"c","s">>)
AnnaMail == PyStr(<<"a","n","n","a","@","x",".","i","o">>)
SearchStudentPool ==
    {Student(S001, Ann, AnnMail, ProgCS), Student(S002, AnnaUpper, AnnaMail, ProgCsLower),
     Student(S003, Bob, BobMail, ProgCS)}
SearchCoursePool ==
    {Course(CSC1234, Intro, PyInt(3), DrSmith), Course(MAT2000, Algebra, PyInt(4), DrJones)}

\* the lists of distinct entities of a pool, in every order
DistinctLists(pool) ==
    {l \in UNION {[1..n -> pool] : n \in 0..Cardinality(pool)} :
        \A i, j \in 1..Len(l) : l[i] = l[j] => i = j}

InitSearch ==
    /\ \E ss \in DistinctLists(SearchStudentPool), cs \in DistinctLists(SearchCoursePool),
          now \in Instants :
          files = save_courses(save_students([f \in FileNames |-> NoFile], ss, now), cs, now)
    /\ students = load_students(files)
    /\ courses = load_courses(files)
    /\ enrollments = load_enrollments(files)
    /\ last = Call("__init__", None, None, Returned(<<>>, files, <<>>, None))
    /\ given = NoLists
    /\ removedKeys = {}
    /\ createdKeys = NoKeys
    /\ held = None
    /\ ui = NoUi
    /\ peer = NoLists

\* name criteria: absent, empty, in lower case, in upper case, of no student
SearchNames == {None, Empty, PyStr(<<"a","n">>), PyStr(<<"N","N","A">>), PyStr(<<"z">>)}
SearchPrograms == {None, Empty, ProgCS, ProgCsLower}
SearchCodes == {None, Empty, PyStr(<<"c","s","c">>)}
SearchCourseNames == {None, PyStr(<<"A","L","G">>)}
SearchInstructors == {None, PyStr(<<"J","O","N","E","S">>)}

NextSearch ==
    \/ \E name \in SearchNames, program \in SearchPrograms :
          SearchStudents(name, program) /\ UNCHANGED <<removedKeys, createdKeys, ui, peer>>
    \/ \E code \in SearchCodes, name \in SearchCourseNames, instructor \in SearchInstructors :
          SearchCourses(code, name, instructor) /\ UNCHANGED <<removedKeys, createdKeys, ui, peer>>

SpecSearch == InitSearch /\ [][NextSearch]_vars

-----------------------------------------------------------------------------
(* SpecValidate: validate() called on an entity the caller has just        *)
(* constructed; the constructors accept any value in any field.            *)

\* the record of a call on an entity the caller holds
OnEntity(op, self, r) ==
    [op |-> op, student_id |-> None, course_code |-> None, self |-> self,
     error |-> r.error, wrote |-> <<>>, ret |-> r.ret]

ValidateStudent ==
    /\ last.op \in {"__init__", "validate"}
    /\ last.self.t = "Student"
    /\ last' = OnEntity("validate", last.self, Student_validate(last.self.obj))
    /\ UNCHANGED <<students, courses, enrollments, files, given>>

ValidateCourse ==
    /\ last.op \in {"__init__", "validate"}
    /\ last.self.t = "Course"
    /\ last' = OnEntity("validate", last.self, Course_validate(last.self.obj))
    /\ UNCHANGED <<students, courses, enrollments, files, given>>

ValidateEnrollment ==
    /\ last.op \in {"__init__", "validate"}
    /\ last.self.t = "Enrollment"
    /\ last' = OnEntity("validate", last.self, Enrollment_validate(last.self.obj))
    /\ UNCHANGED <<students, courses, enrollments, files, given>>

AnnMailNewline == PyStr(AnnMail.v \o <<"\n">>)
CSC1234Newline == PyStr(CSC1234.v \o <<"\n">>)
CodeLowerCase == PyStr(<<"c","s","c","1","2","3","4">>)

\* the values given to the constructors: valid and invalid str, and values
\* that are no str
IdValues == {S001, Spaces, PyInt(123)}
NameValues == {Ann, Empty, None, PyInt(0)}
EmailValues == {AnnMail, NoTldMail, AnnMailNewline, Empty, PyFloat(55)}
ProgramValues == {ProgCS, Spaces, PyInt(7)}
CodeValues == {CSC1234, CSC1234Newline, CodeLowerCase, Empty, PyInt(1234)}
CourseNameValues == {Intro, Spaces, PyInt(5)}
CreditsValues == {PyInt(1), PyInt(6), PyInt(0), PyInt(7), PyStr(<<"3">>), PyFloat(30), None}
InstructorValues == {DrSmith, Empty, PyInt(9)}
EnrollmentCodeValues == {CSC1234, Spaces, PyInt(2)}
GradeValues == {None, PyInt(0), PyInt(100), PyInt(101), PyFloat(-1), PyFloat(855),
                PyStr(<<"A">>)}

Constructed ==
    {PyObj("Student", Student(id, name, email, program)) :
        id \in IdValues, name \in NameValues, email \in EmailValues, program \in ProgramValues}
    \cup {PyObj("Course", Course(code, name, credits, instructor)) :
            code \in CodeValues, name \in CourseNameValues, credits \in CreditsValues,
            instructor \in InstructorValues}
    \cup {PyObj("Enrollment", Enrollment(id, code, grade, created)) :
            id \in IdValues, code \in EnrollmentCodeValues, grade \in GradeValues,
            created \in Instants}

InitValidate ==
    /\ files = [f \in FileNames |-> NoFile]
    /\ students = <<>>
    /\ courses = <<>>
    /\ enrollments = <<>>
    /\ \E self \in Constructed :
          last = OnEntity("__init__", self, [error |-> NoError, ret |-> None])
    /\ given = NoLists
    /\ removedKeys = {}
    /\ createdKeys = NoKeys
    /\ held = None
    /\ ui = NoUi
    /\ peer = NoLists

NextValidate ==
    \/ Plain(ValidateStudent)
    \/ Plain(ValidateCourse)
    \/ Plain(ValidateEnrollment)

SpecValidate == InitValidate /\ [][NextValidate]_vars

-----------------------------------------------------------------------------
(* SpecCli: main() started over a data directory whose documents are       *)
(* absent, written by the program, or not JSON, and the menu loop of the   *)
(* CLI that main() runs.                                                   *)

\* a document json.loads rejects, as "{ invalid json" of the tests
Corrupt == [exists |-> TRUE, text |-> <<"{", " ", "i", "n", "v", "a", "l", "i", "d">>]

\* json.loads(file_path.read_text()) returns a document with its array
Parseable(doc) == "key" \in DOMAIN doc

\* raise Exception(f"Invalid JSON in {file_path}: {e}")
InvalidJson(file) == [type |-> "Exception", msg |-> "Invalid JSON in", errors |-> <<file>>]

\* a load that treats a document it cannot parse as an absent one
Load_corrupt_as_absent(fs, file) ==
    IF ~fs[file].exists \/ ~Parseable(fs[file])
    THEN [error |-> NoError, ret |-> PyList(<<>>)]
    ELSE [error |-> NoError,
          ret |-> PyList(CASE file = StudentsFile -> load_students(fs)
                           [] file = CoursesFile -> load_courses(fs)
                           [] file = EnrollmentsFile -> load_enrollments(fs))]

\* load_students / load_courses / load_enrollments as a call: [] when the
\* file does not exist, the exception when json.loads raises
\* JSONDecodeError, else the entities read
Load(fs, file) ==
    IF fs[file].exists /\ ~Parseable(fs[file])
    THEN [error |-> InvalidJson(file), ret |-> None]
    ELSE [error |-> NoError,
          ret |-> PyList(CASE file = StudentsFile -> load_students(fs)
                           [] file = CoursesFile -> load_courses(fs)
                           [] file = EnrollmentsFile -> load_enrollments(fs))]

\* print(text) and print(f"{text}{arg}")
Printed(text, arg) == [text |-> text, arg |-> arg]

\* main(): the three services are constructed in turn, then cli.run() is
\* entered; any exception is printed as a fatal error and the program exits
Main ==
    /\ ui.pc = "none"
    /\ LET s == Load(files, StudentsFile)
           c == Load(files, CoursesFile)
           e == Load(files, EnrollmentsFile)
           failed == IF s.error # NoError THEN s.error
                     ELSE IF c.error # NoError THEN c.error ELSE e.error
       IN IF failed # NoError
          THEN /\ ui' = [pc |-> "exit(1)", choice |-> None,
                         out |-> <<Printed("Fatal error: ", failed)>>]
               /\ last' = Call("main", None, None, Raised(<<>>, files, failed))
               /\ UNCHANGED <<students, courses, enrollments>>
          ELSE /\ students' = s.ret.v
               /\ courses' = c.ret.v
               /\ enrollments' = e.ret.v
               /\ ui' = [pc |-> "main", choice |-> None, out |-> <<>>]
               /\ last' = Call("main", None, None, Returned(<<>>, files, <<>>, None))
    /\ UNCHANGED <<files, given>>

\* str.strip()
RECURSIVE lstrip(_)
lstrip(s) == IF s # <<>> /\ Head(s) \in Whitespace THEN lstrip(Tail(s)) ELSE s

RECURSIVE rstrip(_)
rstrip(s) ==
    IF s # <<>> /\ s[Len(s)] \in Whitespace THEN rstrip(SubSeq(s, 1, Len(s) - 1)) ELSE s

\* input(prompt).strip() for the line typed
strip(line) == PyStr(rstrip(lstrip(line.v)))

\* input(prompt).strip() or None
StripOrNone(line) == IF Truthy(strip(line)) THEN strip(line) ELSE None

\* int(s) accepts s: the lines typed are decimal digits or hold a letter
IsIntLiteral(s) == Len(s) > 0 /\ AllIn(s, 1, Len(s), Digit)

\* float(s) accepts s: the lines typed are digits, or digits, a point and
\* one more digit, or hold a letter
IsFloatLiteral(s) ==
    \/ IsIntLiteral(s)
    \/ /\ Len(s) >= 3
       /\ s[Len(s) - 1] = "."
       /\ AllIn(s, 1, Len(s) - 2, Digit)
       /\ s[Len(s)] \in Digit

\* float(s), in tenths
FloatOf(s) ==
    IF IsIntLiteral(s) THEN PyFloat(10 * ParseNat(s))
    ELSE PyFloat(10 * ParseNat(SubSeq(s, 1, Len(s) - 2)) + DigitVal(s[Len(s)]))

\* the `while True: try ... except ValueError` loops of _add_course and
\* _assign_grade: the index of the first line typed that converts
FirstAccepted(lines, Accepts(_)) ==
    CHOOSE i \in 1..Len(lines) :
        /\ Accepts(strip(lines[i]).v)
        /\ \A j \in 1..(i - 1) : ~Accepts(strip(lines[j]).v)

Rejections(lines, Accepts(_), text) ==
    [j \in 1..(FirstAccepted(lines, Accepts) - 1) |-> Printed(text, None)]

One == PyStr(<<"1">>)
Two == PyStr(<<"2">>)
Three == PyStr(<<"3">>)
Zero == PyStr(<<"0">>)

InvalidChoice == <<Printed("Invalid choice. Please try again.", None)>>

\* what a handler prints after a service call: the success text, or the
\* ValueError it caught
Report(r, success) ==
    IF r.error = NoError THEN <<Printed(success, None)>> ELSE <<Printed("Error: ", r.error)>>

\* the for loop that prints each entity, or the text for none
Listing(list, nothing) ==
    IF list = <<>> THEN <<Printed(nothing, None)>> ELSE <<Printed("", PyList(list))>>

\* one turn of the loop of run(): the menu is shown, a choice is read
Run(line) ==
    /\ ui.pc = "main"
    /\ LET choice == strip(line)
       IN ui' = CASE choice = One -> [pc |-> "students", choice |-> choice, out |-> <<>>]
                  [] choice = Two -> [pc |-> "courses", choice |-> choice, out |-> <<>>]
                  [] choice = Three -> [pc |-> "enrollments", choice |-> choice, out |-> <<>>]
                  [] choice = Zero ->
                        [pc |-> "exit(0)", choice |-> choice,
                         out |-> <<Printed("Goodbye!", None)>>]
                  [] OTHER -> [pc |-> "main", choice |-> choice, out |-> InvalidChoice]
    /\ UNCHANGED <<students, courses, enrollments, files, last, given>>

\* sub-menus whose choice "0" ends run() instead of the sub-menu
LeaveOrStay_zero_returns(menu, line) ==
    /\ ui.pc = menu
    /\ strip(line) \notin {One, Two, Three}
    /\ ui' = IF strip(line) = Zero
             THEN [pc |-> "exit(0)", choice |-> strip(line), out |-> <<>>]
             ELSE [pc |-> menu, choice |-> strip(line), out |-> InvalidChoice]
    /\ UNCHANGED <<students, courses, enrollments, files, last, given>>

\* choices "0" and unrecognised of the three sub-menus
LeaveOrStay(menu, line) ==
    /\ ui.pc = menu
    /\ strip(line) \notin {One, Two, Three}
    /\ ui' = IF strip(line) = Zero
             THEN [pc |-> "main", choice |-> strip(line), out |-> <<>>]
             ELSE [pc |-> menu, choice |-> strip(line), out |-> InvalidChoice]
    /\ UNCHANGED <<students, courses, enrollments, files, last, given>>

\* _handle_student_menu, choice "1": _add_student
AddStudent(line, student_id, name, email, program, now) ==
    /\ ui.pc = "students"
    /\ strip(line) = One
    /\ LET r == create_student(students, files, strip(student_id), strip(name),
                               strip(email), strip(program), now)
       IN /\ students' = r.coll
          /\ files' = r.files
          /\ last' = Call("create_student", strip(student_id), None, r)
          /\ ui' = [pc |-> "students", choice |-> One,
                    out |-> Report(r, "Student added successfully!")]
    /\ UNCHANGED <<courses, enrollments, given>>

\* _handle_student_menu, choice "2" (_list_students) and "3" (_search_students)
ShowStudents(line, name, program) ==
    /\ ui.pc = "students"
    /\ strip(line) \in {Two, Three}
    /\ LET found == IF strip(line) = Two THEN list_students(students)
                    ELSE search_students(students, StripOrNone(name), StripOrNone(program))
       IN /\ last' = Call(IF strip(line) = Two THEN "list_students" ELSE "search_students",
                          None, None, Returned(students, files, <<>>, found))
          /\ ui' = [pc |-> "students", choice |-> strip(line),
                    out |-> Listing(IF "alias" \in DOMAIN found THEN students ELSE found.v,
                                    IF strip(line) = Two THEN "No students found."
                                    ELSE "No matching students found.")]
    /\ UNCHANGED <<students, courses, enrollments, files, given>>

\* _handle_course_menu, choice "1": _add_course; credits holds the lines
\* typed at "Enter Credits: ", the last of them the first int() accepts
AddCourse(line, course_code, name, credits, instructor, now) ==
    /\ ui.pc = "courses"
    /\ strip(line) = One
    /\ LET typed == strip(credits[FirstAccepted(credits, IsIntLiteral)]).v
           r == create_course(courses, files, strip(course_code), strip(name),
                              PyInt(ParseNat(typed)), strip(instructor), now)
       IN /\ courses' = r.coll
          /\ files' = r.files
          /\ last' = Call("create_course", None, strip(course_code), r)
          /\ ui' = [pc |-> "courses", choice |-> One,
                    out |-> Rejections(credits, IsIntLiteral,
                                       "Error: Credits must be a number.")
                            \o Report(r, "Course added successfully!")]
    /\ UNCHANGED <<students, enrollments, given>>

\* _handle_course_menu, choice "2" (_list_courses) and "3" (_search_courses)
ShowCourses(line, course_code, name, instructor) ==
    /\ ui.pc = "courses"
    /\ strip(line) \in {Two, Three}
    /\ LET found == IF strip(line) = Two THEN list_courses(courses)
                    ELSE search_courses(courses, StripOrNone(course_code),
                                        StripOrNone(name), StripOrNone(instructor))
       IN /\ last' = Call(IF strip(line) = Two THEN "list_courses" ELSE "search_courses",
                          None, None, Returned(courses, files, <<>>, found))
          /\ ui' = [pc |-> "courses", choice |-> strip(line),
                    out |-> Listing(IF "alias" \in DOMAIN found THEN courses ELSE found.v,
                                    IF strip(line) = Two THEN "No courses found."
                                    ELSE "No matching courses found.")]
    /\ UNCHANGED <<students, courses, enrollments, files, given>>

\* _handle_enrollment_menu, choice "1": _enroll_student
Enroll(line, student_id, course_code, created, now) ==
    /\ ui.pc = "enrollments"
    /\ strip(line) = One
    /\ LET r == enroll_student(enrollments, students, courses, files, strip(student_id),
                               strip(course_code), created, now)
       IN /\ enrollments' = r.coll
          /\ files' = r.files
          /\ last' = Call("enroll_student", strip(student_id), strip(course_code), r)
          /\ ui' = [pc |-> "enrollments", choice |-> One,
                    out |-> Report(r, "Student enrolled successfully!")]
    /\ UNCHANGED <<students, courses, given>>

\* _handle_enrollment_menu, choice "2": _assign_grade; grade holds the lines
\* typed at "Enter Grade (0-100): ", the last of them the first float() accepts
Grade(line, student_id, course_code, grade, now) ==
    /\ ui.pc = "enrollments"
    /\ strip(line) = Two
    /\ LET typed == strip(grade[FirstAccepted(grade, IsFloatLiteral)]).v
           r == assign_grade(enrollments, files, strip(student_id), strip(course_code),
                             FloatOf(typed), now)
       IN /\ enrollments' = r.coll
          /\ files' = r.files
          /\ last' = Call("assign_grade", strip(student_id), strip(course_code), r)
          /\ ui' = [pc |-> "enrollments", choice |-> Two,
                    out |-> Rejections(grade, IsFloatLiteral,
                                       "Error: Grade must be a number.")
                            \o Report(r, "Grade assigned successfully!")]
    /\ UNCHANGED <<students, courses, given>>

\* _handle_enrollment_menu, choice "3": _view_enrollments
ViewEnrollments(line, student_id) ==
    /\ ui.pc = "enrollments"
    /\ strip(line) = Three
    /\ LET found == get_student_enrollments(enrollments, strip(student_id))
       IN /\ last' = Call("get_student_enrollments", strip(student_id), None,
                          Returned(enrollments, files, <<>>, PyList(found)))
          /\ ui' = [pc |-> "enrollments", choice |-> Three,
                    out |-> IF found = <<>>
                            THEN <<Printed("No enrollments found for this student.", None)>>
                            ELSE <<Printed("Enrollments for ", PyList(found)),
                                   Printed("GPA: ",
                                           get_student_gpa(enrollments, strip(student_id)))>>]
    /\ UNCHANGED <<students, courses, enrollments, files, given>>

\* the lines typed at a menu
PaddedZero == PyStr(<<" ", "0", " ">>)
MenuLines == {One, Two, Three, Zero, PaddedZero, PyStr(<<"9">>), Empty}
PaddedS002 == PyStr(<<" ", "S", "0", "0", "2">>)
CreditsLines == {<<PyStr(<<"3">>)>>, <<PyStr(<<"x">>), PyStr(<<"3">>)>>, <<PyStr(<<"7">>)>>}
GradeLines ==
    {<<PyStr(<<"8", "5", ".", "5">>)>>, <<PyStr(<<"a">>), PyStr(<<"0">>)>>,
     <<PyStr(<<"1", "0", "1">>)>>}

\* the data directory main() finds: each document absent or not JSON, or
\* the documents an earlier run has written
Directories ==
    [FileNames -> {NoFile, Corrupt}]
    \cup {save_students([f \in FileNames |-> NoFile],
                        <<Student(S001, Ann, AnnMail, ProgCS)>>, now) : now \in Instants}

InitCli ==
    /\ files \in Directories
    /\ students = <<>>
    /\ courses = <<>>
    /\ enrollments = <<>>
    /\ last = Call("__init__", None, None, Returned(<<>>, files, <<>>, None))
    /\ given = NoLists
    /\ removedKeys = {}
    /\ createdKeys = NoKeys
    /\ held = None
    /\ ui = NoUi
    /\ peer = NoLists

\* a step of main() or of the CLI keeps no history and there is one instance
\* of each service
Typed(A) == A /\ UNCHANGED <<removedKeys, createdKeys, held, peer>>

NextCli ==
    \/ Typed(Main)
    \/ \E line \in MenuLines : Typed(Run(line))
    \/ \E menu \in {"students", "courses", "enrollments"}, line \in MenuLines :
          Typed(LeaveOrStay(menu, line))
    \/ \E id \in {S001, PaddedS002}, email \in {AnnMail, NoTldMail}, now \in Instants :
          Typed(AddStudent(One, id, Ann, email, ProgCS, now))
    \/ \E line \in {Two, Three}, name \in {Empty, Ann} :
          Typed(ShowStudents(line, name, Spaces))
    \/ \E credits \in CreditsLines, now \in Instants :
          Typed(AddCourse(One, CSC1234, Intro, credits, DrSmith, now))
    \/ \E line \in {Two, Three}, code \in {Empty, MAT2000} :
          Typed(ShowCourses(line, code, Empty, Empty))
    \/ \E id \in {S001, PaddedS002}, code \in CourseCodes, created \in Instants,
          now \in Instants :
          Typed(Enroll(One, id, code, created, now))
    \/ \E id \in {S001, PaddedS002}, grade \in GradeLines, now \in Instants :
          Typed(Grade(Two, id, CSC1234, grade, now))
    \/ \E id \in {S001, PaddedS002} : Typed(ViewEnrollments(Three, id))

SpecCli == InitCli /\ [][NextCli]_vars

-----------------------------------------------------------------------------
(* SpecBackup: create_backup beside the student and course services. The   *)
(* .bak files of the data directory are kept under one more name of        *)
(* `files`, as a function from file name to content.                       *)

BackupFiles == "*.bak"
NoBackups == [name \in {} |-> NoFile]

\* file_map of create_backup, and the letters of its keys
file_map == [students |-> StudentsFile, courses |-> CoursesFile, enrollments |-> EnrollmentsFile]
Letters ==
    [students |-> <<"s","t","u","d","e","n","t","s">>,
     courses |-> <<"c","o","u","r","s","e","s">>,
     enrollments |-> <<"e","n","r","o","l","l","m","e","n","t","s">>]

\* datetime.strftime("%Y%m%d_%H%M%S"): the microseconds are dropped
strftime(d) ==
    LET digit(c) == c \notin {"-", ":"}
        kept == SelectSeq(DatePrefix, digit)
    IN [i \in 1..Len(kept) |-> IF kept[i] = "T" THEN "_" ELSE kept[i]] \o Pad(d.sec, SecWidth)

\* f"{file_type}_{timestamp}.bak"
backup_name(file_type, now) ==
    Letters[file_type] \o <<"_">> \o strftime(now) \o <<".", "b", "a", "k">>

\* shutil.copy2(source_file, backup_path): a file of that name is replaced
copy2(fs, source, name) ==
    [fs EXCEPT ![BackupFiles] =
        [n \in DOMAIN fs[BackupFiles] \cup {name} |->
            IF n = name THEN fs[source] ELSE fs[BackupFiles][n]]]

\* a backup that moves the document instead of copying it
create_backup_move(fs, file_type, now) ==
    IF file_type \notin DOMAIN file_map
    THEN Raised(<<>>, fs, ValueError("Invalid file type", <<>>))
    ELSE IF ~fs[file_map[file_type]].exists
    THEN Returned(<<>>, fs, <<>>, None)
    ELSE Returned(<<>>,
                  [copy2(fs, file_map[file_type], backup_name(file_type, now))
                      EXCEPT ![file_map[file_type]] = NoFile],
                  <<>>, PyObj("Path", backup_name(file_type, now)))

create_backup(fs, file_type, now) ==
    IF file_type \notin DOMAIN file_map
    THEN Raised(<<>>, fs, ValueError("Invalid file type", <<>>))
    ELSE IF ~fs[file_map[file_type]].exists
    THEN Returned(<<>>, fs, <<>>, None)
    ELSE Returned(<<>>, copy2(fs, file_map[file_type], backup_name(file_type, now)),
                  <<>>, PyObj("Path", backup_name(file_type, now)))

\* the record of a call of create_backup
BackedUp(file_type, now, r) ==
    [op |-> "create_backup", student_id |-> None, course_code |-> None,
     file_type |-> file_type, now |-> now, error |-> r.error, wrote |-> r.wrote,
     ret |-> r.ret]

CreateBackup(file_type, now) ==
    LET r == create_backup(files, file_type, now)
    IN /\ files' = r.files
       /\ last' = BackedUp(file_type, now, r)
       /\ UNCHANGED <<students, courses, enrollments, given>>

InitBackup ==
    /\ files = [f \in FileNames \cup {BackupFiles} |->
                   IF f = BackupFiles THEN NoBackups ELSE NoFile]
    /\ students = load_students(files)
    /\ courses = load_courses(files)
    /\ enrollments = load_enrollments(files)
    /\ last = Call("__init__", None, None, Returned(<<>>, files, <<>>, None))
    /\ given = NoLists
    /\ removedKeys = {}
    /\ createdKeys = NoKeys
    /\ held = None
    /\ ui = NoUi
    /\ peer = NoLists

\* the clock readings of create_backup: two in one second, one in the next
BackupInstants == {PyDatetime(7, 250000), PyDatetime(7, 900000), PyDatetime(8, 0)}
FileTypes == {"students", "courses", "enrollments", "grades"}

NextBackup ==
    \/ \E file_type \in FileTypes, now \in BackupInstants :
          Plain(CreateBackup(file_type, now))
    \/ \E id \in StudentIds, now \in Instants :
          Plain(CreateStudent(id, Ann, AnnMail, ProgCS, now))
    \/ \E id \in StudentIds, now \in Instants : Plain(DeleteStudent(id, now))
    \/ \E now \in Instants : Plain(CreateCourse(CSC1234, Intro, PyInt(3), DrSmith, now))

SpecBackup == InitBackup /\ [][NextBackup]_vars

-----------------------------------------------------------------------------
(* SpecPeers: two StudentService (and two CourseService) instances          *)
(* constructed over one data directory; `students` and `courses` are the   *)
(* lists of the first, `peer` holds the lists of the second.                *)

\* the record of a call made on the second instance
PeerCall(op, student_id, course_code, r) ==
    [instance |-> "second", op |-> op, student_id |-> student_id,
     course_code |-> course_code, error |-> r.error, wrote |-> r.wrote, ret |-> r.ret]

PeerCreateStudent(student_id, name, email, program, now) ==
    LET r == create_student(peer.students, files, student_id, name, email, program, now)
    IN /\ peer' = [peer EXCEPT !.students = r.coll]
       /\ files' = r.files
       /\ last' = PeerCall("create_student", student_id, None, r)
       /\ UNCHANGED <<students, courses, enrollments, given>>

PeerUpdateStudent(student_id, name, email, program, now) ==
    LET r == update_student(peer.students, files, student_id, name, email, program, now)
    IN /\ peer' = [peer EXCEPT !.students = r.coll]
       /\ files' = r.files
       /\ last' = PeerCall("update_student", student_id, None, r)
       /\ UNCHANGED <<students, courses, enrollments, given>>

PeerDeleteStudent(student_id, now) ==
    LET r == delete_student(peer.students, files, student_id, now)
    IN /\ peer' = [peer EXCEPT !.students = r.coll]
       /\ files' = r.files
       /\ last' = PeerCall("delete_student", student_id, None, r)
       /\ UNCHANGED <<students, courses, enrollments, given>>

PeerCreateCourse(course_code, name, credits, instructor, now) ==
    LET r == create_course(peer.courses, files, course_code, name, credits, instructor, now)
    IN /\ peer' = [peer EXCEPT !.courses = r.coll]
       /\ files' = r.files
       /\ last' = PeerCall("create_course", None, course_code, r)
       /\ UNCHANGED <<students, courses, enrollments, given>>

PeerDeleteCourse(course_code, now) ==
    LET r == delete_course(peer.courses, files, course_code, now)
    IN /\ peer' = [peer EXCEPT !.courses = r.coll]
       /\ files' = r.files
       /\ last' = PeerCall("delete_course", None, course_code, r)
       /\ UNCHANGED <<students, courses, enrollments, given>>

\* both instances are constructed before either is used, over a directory
\* that is empty or holds the documents of an earlier run
InitPeers ==
    /\ \E ss \in {<<>>, <<Student(S001, Ann, AnnMail, ProgCS)>>}, now \in Instants :
          files = IF ss = <<>> THEN [f \in FileNames |-> NoFile]
                  ELSE save_students([f \in FileNames |-> NoFile], ss, now)
    /\ students = load_students(files)
    /\ courses = load_courses(files)
    /\ enrollments = load_enrollments(files)
    /\ peer = [students |-> load_students(files), courses |-> load_courses(files),
               enrollments |-> <<>>]
    /\ last = Call("__init__", None, None, Returned(<<>>, files, <<>>, None))
    /\ given = NoLists
    /\ removedKeys = {}
    /\ createdKeys = NoKeys
    /\ held = None
    /\ ui = NoUi

\* a step of one of the two instances
Alone(A) == A /\ UNCHANGED <<removedKeys, createdKeys, held, ui>>

\* the student instances are used, or the course instances are
StudentsUnused == students = <<>> /\ peer.students = <<>> /\ ~files[StudentsFile].exists
CoursesUnused == courses = <<>> /\ peer.courses = <<>> /\ ~files[CoursesFile].exists

NextPeers ==
    \/ \E id \in StudentIds, now \in Instants :
          /\ CoursesUnused
          /\ Alone(CreateStudent(id, Ann, AnnMail, ProgCS, now) /\ UNCHANGED peer)
    \/ \E now \in Instants :
          /\ CoursesUnused
          /\ Alone(UpdateStudent(S001, Bob, None, None, now) /\ UNCHANGED peer)
    \/ \E id \in StudentIds, now \in Instants :
          /\ CoursesUnused
          /\ Alone(DeleteStudent(id, now) /\ UNCHANGED peer)
    \/ \E code \in CourseCodes, now \in Instants :
          /\ StudentsUnused
          /\ Alone(CreateCourse(code, Intro, PyInt(3), DrSmith, now) /\ UNCHANGED peer)
    \/ \E code \in CourseCodes, now \in Instants :
          /\ StudentsUnused
          /\ Alone(DeleteCourse(code, now) /\ UNCHANGED peer)
    \/ \E id \in StudentIds, now \in Instants :
          /\ CoursesUnused
          /\ Alone(PeerCreateStudent(id, Ann, AnnMail, ProgCS, now))
    \/ \E now \in Instants :
          /\ CoursesUnused
          /\ Alone(PeerUpdateStudent(S001, Bob, None, None, now))
    \/ \E id \in StudentIds, now \in Instants :
          /\ CoursesUnused
          /\ Alone(PeerDeleteStudent(id, now))
    \/ \E code \in CourseCodes, now \in Instants :
          /\ StudentsUnused
          /\ Alone(PeerCreateCourse(code, Intro, PyInt(3), DrSmith, now))
    \/ \E code \in CourseCodes, now \in Instants :
          /\ StudentsUnused
          /\ Alone(PeerDeleteCourse(code, now))

SpecPeers == InitPeers /\ [][NextPeers]_vars

-----------------------------------------------------------------------------
(* SpecInvalid: the three services over an empty data directory, called    *)
(* with valid values, with invalid values of the declared types and with   *)
(* values that are no str.                                                  *)

\* names given to update_student: valid, blank, and an int
UpdateNames == {Bob, Spaces, PyInt(123)}
\* instructors given to update_course: not provided, and an int
UpdateInstructors == {None, PyInt(9)}
\* grades given to assign_grade: in range, out of range, and a str
InvalidGrades == {PyInt(0), PyInt(101), PyStr(<<"A">>)}

NextInvalid ==
    \/ \E id \in StudentIds, name \in {Ann, Empty}, now \in Instants :
          Plain(CreateStudent(id, name, AnnMail, ProgCS, now))
    \/ \E name \in UpdateNames, email \in {None, NoTldMail}, now \in Instants :
          Plain(UpdateStudent(S001, name, email, None, now))
    \/ \E id \in StudentIds, now \in Instants : Plain(DeleteStudent(id, now))
    \/ \E credits \in {PyInt(3), PyInt(7)}, now \in Instants :
          Plain(CreateCourse(CSC1234, Intro, credits, DrSmith, now))
    \/ \E instructor \in UpdateInstructors, now \in Instants :
          Plain(UpdateCourse(CSC1234, None, PyInt(0), instructor, now))
    \/ \E now \in Instants : Plain(DeleteCourse(CSC1234, now))
    \/ \E created \in Instants, now \in Instants :
          Plain(EnrollStudent(S001, CSC1234, created, now))
    \/ \E grade \in InvalidGrades, now \in Instants :
          Plain(AssignGrade(S001, CSC1234, grade, now))
    \/ \E now \in Instants : Plain(UnenrollStudent(S001, CSC1234, now))

SpecInvalid == Init /\ [][NextInvalid]_vars

-----------------------------------------------------------------------------
(* SpecRejoin: the three services over the documents of an earlier run: a  *)
(* student with a graded enrollment, a second student enrolled without a   *)
(* grade, one course. Students and the course are deleted and created      *)
(* again beside the enrollment calls; the history keeps the keys created   *)
(* in this run and the pairs unenrolled while they had a grade.            *)

\* the clock reading of the enrollments of the earlier run
EarlierRun == PyDatetime(3, 0)

InitRejoin ==
    /\ \E now \in Instants :
          files = save_enrollments(
                      save_courses(
                          save_students([f \in FileNames |-> NoFile], TwoStudents, now),
                          <<Course(CSC1234, Intro, PyInt(3), DrSmith)>>, now),
                      <<Enrollment(S001, CSC1234, PyFloat(905), EarlierRun),
                        Enrollment(S002, CSC1234, None, EarlierRun)>>, now)
    /\ students = load_students(files)
    /\ courses = load_courses(files)
    /\ enrollments = load_enrollments(files)
    /\ last = Call("__init__", None, None, Returned(<<>>, files, <<>>, None))
    /\ given = NoLists
    /\ removedKeys = {}
    /\ createdKeys = NoKeys
    /\ held = None
    /\ ui = NoUi
    /\ peer = NoLists

\* a call on a service, with both histories kept
Rejoin(A) ==
    /\ A
    /\ createdKeys' = Recorded
    /\ removedKeys' =
          IF /\ last'.op = "unenroll_student"
             /\ last'.ret = PyBool(TRUE)
             /\ ~IsNone(enrollments[_get_enrollment(enrollments, last'.student_id,
                                                    last'.course_code)].grade)
          THEN removedKeys \cup {<<last'.student_id, last'.course_code>>}
          ELSE removedKeys
    /\ UNCHANGED <<held, ui, peer>>

RejoinGrades == {PyInt(70), PyInt(101)}

NextRejoin ==
    \/ \E now \in Instants : Rejoin(DeleteStudent(S001, now))
    \/ \E now \in Instants : Rejoin(CreateStudent(S001, Bob, BobMail, ProgMath, now))
    \/ \E now \in Instants : Rejoin(DeleteCourse(CSC1234, now))
    \/ \E now \in Instants : Rejoin(CreateCourse(CSC1234, Algebra, PyInt(4), DrJones, now))
    \/ \E id \in StudentIds, created \in Instants, now \in Instants :
          Rejoin(EnrollStudent(id, CSC1234, created, now))
    \/ \E id \in StudentIds, grade \in RejoinGrades, now \in Instants :
          Rejoin(AssignGrade(id, CSC1234, grade, now))
    \/ \E id \in StudentIds, now \in Instants : Rejoin(UnenrollStudent(id, CSC1234, now))
    \/ Rejoin(GetStudentEnrollments(S001))
    \/ Rejoin(GetStudentGpa(S001))

SpecRejoin == InitRejoin /\ [][NextRejoin]_vars

-----------------------------------------------------------------------------
(* SpecDisk: the services over a disk whose writes can fail. _save is the  *)
(* last statement of a method that changes its list, and write_text is the *)
(* last statement of save_*: when it raises, the list is already changed   *)
(* and nothing catches the exception.                                      *)

\* what Path.write_text raises, e.g. on a full disk
OSError == [type |-> "OSError", msg |-> "No space left on device", errors |-> <<>>]

\* the file after open(path, "w") when no text could be written
Truncated == [exists |-> TRUE, text |-> <<>>]

\* write_text: the text is written; open() raises and the file stays as it
\* was; open() has emptied the file and the write raises
DiskOutcomes == {"written", "refused", "truncated"}

\* a save that is repeated until the text is written
Saved_retry(r, fs, disk) == r

\* the call whose result on a working disk is r, on this disk: the one
\* write_text of the call raises and the exception leaves the method
Saved(r, fs, disk) ==
    IF r.wrote = <<>> \/ disk = "written"
    THEN r
    ELSE Raised(r.coll,
                IF disk = "refused" THEN fs ELSE [fs EXCEPT ![r.wrote[1]] = Truncated],
                OSError)

\* the record of a call on this disk; saving tells whether it reached _save
OnDisk(op, student_id, course_code, r, disk, saving) ==
    [op |-> op, student_id |-> student_id, course_code |-> course_code,
     error |-> r.error, wrote |-> r.wrote, ret |-> r.ret,
     disk |-> disk, saving |-> saving]

\* the list a service keeps for a document
Kept(file) ==
    CASE file = StudentsFile -> students
      [] file = CoursesFile -> courses
      [] file = EnrollmentsFile -> enrollments

\* the document of the file is the list of its service
Settled(file) ==
    /\ Load(files, file).error = NoError
    /\ Load(files, file).ret.v = Kept(file)

\* the disk fails for one document at a time
Faulty(file, disk) ==
    disk = "written" \/ \A other \in FileNames \ {file} : Settled(other)

\* a method of StudentService
StudentsOnDisk(op, student_id, r, disk) ==
    LET s == Saved(r, files, disk)
    IN /\ Faulty(StudentsFile, disk)
       /\ students' = s.coll
       /\ files' = s.files
       /\ last' = OnDisk(op, student_id, None, s, disk, r.wrote # <<>>)
       /\ UNCHANGED <<courses, enrollments, given>>

\* a method of CourseService
CoursesOnDisk(op, course_code, r, disk) ==
    LET s == Saved(r, files, disk)
    IN /\ Faulty(CoursesFile, disk)
       /\ courses' = s.coll
       /\ files' = s.files
       /\ last' = OnDisk(op, None, course_code, s, disk, r.wrote # <<>>)
       /\ UNCHANGED <<students, enrollments, given>>

\* a method of EnrollmentService
EnrollmentsOnDisk(op, student_id, course_code, r, disk) ==
    LET s == Saved(r, files, disk)
    IN /\ Faulty(EnrollmentsFile, disk)
       /\ enrollments' = s.coll
       /\ files' = s.files
       /\ last' = OnDisk(op, student_id, course_code, s, disk, r.wrote # <<>>)
       /\ UNCHANGED <<students, courses, given>>

NextDisk ==
    \/ \E disk \in DiskOutcomes, now \in Instants :
          Plain(StudentsOnDisk("create_student", S001,
                   create_student(students, files, S001, Ann, AnnMail, ProgCS, now), disk))
    \/ \E name \in {Ann, Bob}, disk \in DiskOutcomes, now \in Instants :
          Plain(StudentsOnDisk("update_student", S001,
                   update_student(students, files, S001, name, None, None, now), disk))
    \/ \E disk \in DiskOutcomes, now \in Instants :
          Plain(StudentsOnDisk("delete_student", S001,
                   delete_student(students, files, S001, now), disk))
    \/ \E disk \in DiskOutcomes, now \in Instants :
          Plain(CoursesOnDisk("create_course", CSC1234,
                   create_course(courses, files, CSC1234, Intro, PyInt(3), DrSmith, now), disk))
    \/ \E disk \in DiskOutcomes, now \in Instants :
          Plain(CoursesOnDisk("update_course", CSC1234,
                   update_course(courses, files, CSC1234, None, PyInt(4), None, now), disk))
    \/ \E disk \in DiskOutcomes, now \in Instants :
          Plain(CoursesOnDisk("delete_course", CSC1234,
                   delete_course(courses, files, CSC1234, now), disk))
    \/ \E disk \in DiskOutcomes, created \in Instants, now \in Instants :
          Plain(EnrollmentsOnDisk("enroll_student", S001, CSC1234,
                   enroll_student(enrollments, students, courses, files,
                                  S001, CSC1234, created, now), disk))
    \/ \E disk \in DiskOutcomes, now \in Instants :
          Plain(EnrollmentsOnDisk("assign_grade", S001, CSC1234,
                   assign_grade(enrollments, files, S001, CSC1234, PyInt(70), now), disk))
    \/ \E disk \in DiskOutcomes, now \in Instants :
          Plain(EnrollmentsOnDisk("unenroll_student", S001, CSC1234,
                   unenroll_student(enrollments, files, S001, CSC1234, now), disk))

SpecDisk == Init /\ [][NextDisk]_vars

-----------------------------------------------------------------------------
(* SpecAlias: a caller keeps the list a search or a list call returned      *)
(* while students and courses are created and deleted, and removes the last *)
(* element of the list it keeps. One store is used at a time.               *)

\* held.pop() by the caller: on self.students / self.courses itself when the
\* list held is that object (nothing is saved), else on the caller's own list
HeldPop ==
    /\ held # None
    /\ Deref(held) # <<>>
    /\ LET rest == SubSeq(Deref(held), 1, Len(Deref(held)) - 1)
       IN IF "alias" \in DOMAIN held
          THEN /\ students' = IF held.alias = "students" THEN rest ELSE students
               /\ courses' = IF held.alias = "courses" THEN rest ELSE courses
               /\ held' = held
          ELSE /\ held' = PyList(rest)
               /\ UNCHANGED <<students, courses>>
    /\ last' = Call("pop", None, None, Returned(<<>>, files, <<>>, None))
    /\ UNCHANGED <<enrollments, files, given>>

\* a call that returns a list to the caller
Handed(A) == A /\ UNCHANGED <<removedKeys, createdKeys, ui, peer>>

\* criteria of a search: absent, empty, given
AliasNames == {None, Empty, Ann}
AliasPrograms == {None, Empty, ProgCS}
AliasCodes == {None, Empty, CSC1234}

NextAlias ==
    \/ /\ courses = <<>>
       /\ \/ \E id \in StudentIds, now \in Instants :
                Plain(CreateStudent(id, Ann, AnnMail, ProgCS, now))
          \/ \E id \in StudentIds, now \in Instants : Plain(DeleteStudent(id, now))
          \/ Handed(ListStudents)
          \/ \E name \in AliasNames, program \in AliasPrograms :
                Handed(SearchStudents(name, program))
    \/ /\ students = <<>>
       /\ \/ \E code \in CourseCodes, now \in Instants :
                Plain(CreateCourse(code, Intro, PyInt(3), DrSmith, now))
          \/ \E code \in CourseCodes, now \in Instants : Plain(DeleteCourse(code, now))
          \/ Handed(ListCourses)
          \/ \E code \in AliasCodes, name \in {None, Empty}, instructor \in {None, DrSmith} :
                Handed(SearchCourses(code, name, instructor))
    \/ HeldPop /\ UNCHANGED <<removedKeys, createdKeys, ui, peer>>

SpecAlias == Init /\ [][NextAlias]_vars

-----------------------------------------------------------------------------
(* Properties *)

\* the message of the exception a call raised, "" when it returned
Msg(e) == IF e.type = "none" THEN "" ELSE e.msg

HasStudent(id) == \E i \in 1..Len(students) : students[i].student_id = id
HasCourse(code) == \E i \in 1..Len(courses) : courses[i].course_code = code
HasEnrollment(id, code) ==
    \E i \in 1..Len(enrollments) :
        enrollments[i].student_id = id /\ enrollments[i].course_code = code

\* a value provided to an update that breaks the rule of its field
BadText(x) == ~IsNone(x) /\ (x.v = <<>> \/ \A i \in 1..Len(x.v) : x.v[i] \in Whitespace)
BadEmail(x) == ~IsNone(x) /\ (BadText(x) \/ ~_is_valid_email(x.v))
BadCredits(x) == ~IsNone(x) /\ (x.t # "int" \/ x.v < MinCredits \/ x.v > MaxCredits)

\* C1: create_student / create_course with a key that is present fails with
\* the 'already exists' error, whatever the other fields are, and changes
\* neither the collection nor any document, and writes nothing.
C1_DuplicateCreateFails ==
    [][ /\ (last'.op = "create_student" /\ HasStudent(last'.student_id)) =>
              /\ Msg(last'.error) = "Student with ID already exists."
              /\ students' = students
              /\ files' = files
              /\ last'.wrote = <<>>
        /\ (last'.op = "create_course" /\ HasCourse(last'.course_code)) =>
              /\ Msg(last'.error) = "Course with code already exists."
              /\ courses' = courses
              /\ files' = files
              /\ last'.wrote = <<>>
      ]_vars

\* a duplicate create has been refused while the collection held the key
C1_Witness ==
    /\ last.op = "create_student"
    /\ Msg(last.error) = "Student with ID already exists."
    /\ HasStudent(last.student_id)

KeysUnique ==
    /\ \A i, j \in 1..Len(students) :
          students[i].student_id = students[j].student_id => i = j
    /\ \A i, j \in 1..Len(courses) :
          courses[i].course_code = courses[j].course_code => i = j

\* C5: no two students share a student_id and no two courses a course_code,
\* whatever creates, updates and deletes were made; and a create with valid
\* fields of a key that a delete has removed succeeds.
C5_UniqueKeys ==
    /\ []KeysUnique
    /\ [][ \A id \in StudentIds, now \in Instants :
              ( /\ last'.op = "create_student" /\ last'.student_id = id
                /\ id \in removedKeys
                /\ ~HasStudent(id)
                /\ CreateStudent(id, Ann, AnnMail, ProgCS, now) ) =>
              /\ last'.error = NoError
              /\ students' = Append(students, Student(id, Ann, AnnMail, ProgCS))
         ]_vars

\* a student whose key a delete had removed has been created again
C5_Witness ==
    /\ last.op = "create_student"
    /\ last.error = NoError
    /\ last.student_id \in removedKeys
    /\ HasStudent(last.student_id)
    /\ Len(students) = 2

StudentNotFound == "Student with ID not found."
CourseNotFound == "Course with code not found."
AlreadyEnrolled == "Student is already enrolled in course."

\* C3: enroll_student of a student or a course that is absent from its
\* store fails with a not-found error, also when a record of the pair is
\* still there, adds no record and writes nothing.
C3_EnrollNeedsStudentAndCourse ==
    [][ ( /\ last'.op = "enroll_student"
          /\ (~HasStudent(last'.student_id) \/ ~HasCourse(last'.course_code)) ) =>
          /\ Msg(last'.error) \in {StudentNotFound, CourseNotFound}
          /\ enrollments' = enrollments
          /\ files' = files
          /\ last'.wrote = <<>>
      ]_vars

\* an enroll has failed not-found for a pair whose record outlived a delete
C3_Witness ==
    /\ last.op = "enroll_student"
    /\ Msg(last.error) \in {StudentNotFound, CourseNotFound}
    /\ HasEnrollment(last.student_id, last.course_code)

PairsUnique ==
    \A i, j \in 1..Len(enrollments) :
        ( /\ enrollments[i].student_id = enrollments[j].student_id
          /\ enrollments[i].course_code = enrollments[j].course_code ) => i = j

\* C4 as claimed: no two records share (student_id, course_code), and an
\* enroll_student of a pair that is present fails with 'already enrolled'.
C4_AsClaimed ==
    /\ []PairsUnique
    /\ [][ ( /\ last'.op = "enroll_student"
             /\ HasEnrollment(last'.student_id, last'.course_code) ) =>
             Msg(last'.error) = AlreadyEnrolled
         ]_vars

\* C4, amended: no two records share (student_id, course_code); an
\* enroll_student of a pair that is present fails and adds nothing, with
\* 'already enrolled' when the student and the course are both in their
\* stores and with the not-found error otherwise.
C4_PairsUnique ==
    /\ []PairsUnique
    /\ [][ ( /\ last'.op = "enroll_student"
             /\ HasEnrollment(last'.student_id, last'.course_code) ) =>
             /\ enrollments' = enrollments
             /\ Msg(last'.error) =
                   IF ~HasStudent(last'.student_id) THEN StudentNotFound
                   ELSE IF ~HasCourse(last'.course_code) THEN CourseNotFound
                   ELSE AlreadyEnrolled
         ]_vars

\* a second enroll of a pair has been refused as already enrolled
C4_Witness ==
    /\ last.op = "enroll_student"
    /\ Msg(last.error) = AlreadyEnrolled
    /\ HasEnrollment(last.student_id, last.course_code)

C8_DeleteKeepsEnrollments ==
    [][ /\ last'.op \in {"delete_student", "delete_course"} =>
              /\ enrollments' = enrollments
              /\ files'[EnrollmentsFile] = files[EnrollmentsFile]
        /\ (last'.op = "delete_student" /\ HasStudent(last'.student_id)) =>
              /\ last'.ret = PyBool(TRUE)
              /\ get_student(students', last'.student_id) = 0
        /\ (last'.op = "delete_course" /\ HasCourse(last'.course_code)) =>
              /\ last'.ret = PyBool(TRUE)
              /\ get_course(courses', last'.course_code) = 0
      ]_vars

\* a student has been deleted and a graded record of that student is still there
C8_Witness ==
    /\ last.op = "delete_student"
    /\ last.ret = PyBool(TRUE)
    /\ \E i \in 1..Len(enrollments) :
          /\ enrollments[i].student_id = last.student_id
          /\ ~IsNone(enrollments[i].grade)

\* a grade below 0 or above 100
OutOfRange(g) == Tenths(g) < 10 * MinGrade \/ Tenths(g) > 10 * MaxGrade

PairIndex(id, code) ==
    CHOOSE i \in 1..Len(enrollments) :
        enrollments[i].student_id = id /\ enrollments[i].course_code = code

\* C9: assign_grade fails with 'not enrolled' when the pair has no record;
\* with a record and a grade outside [0, 100] it fails with the
\* invalid-grade error, the record keeps its grade and nothing is written;
\* with a grade inside, the record's grade becomes that grade and the
\* collection is written to the document.
C9_AssignGrade ==
    [][ \A id \in StudentIds, code \in CourseCodes, g \in GradeArgs, now \in Instants :
          ( /\ last'.op = "assign_grade"
            /\ last'.student_id = id /\ last'.course_code = code
            /\ AssignGrade(id, code, g, now) ) =>
          IF ~HasEnrollment(id, code)
          THEN /\ Msg(last'.error) = "Student is not enrolled in course."
               /\ enrollments' = enrollments
               /\ files' = files
          ELSE IF OutOfRange(g)
          THEN /\ Msg(last'.error) = "Invalid grade"
               /\ enrollments' = enrollments
               /\ files' = files
               /\ last'.wrote = <<>>
          ELSE /\ last'.error = NoError
               /\ enrollments' = [enrollments EXCEPT ![PairIndex(id, code)].grade = g]
               /\ last'.wrote = <<EnrollmentsFile>>
               /\ load_enrollments(files') = enrollments'
      ]_vars

\* a grade out of range has been refused for a record that holds a grade
C9_Witness ==
    /\ last.op = "assign_grade"
    /\ Msg(last.error) = "Invalid grade"
    /\ \E i \in 1..Len(enrollments) :
          /\ enrollments[i].student_id = last.student_id
          /\ enrollments[i].course_code = last.course_code
          /\ ~IsNone(enrollments[i].grade)

EnrollmentOps ==
    {"enroll_student", "assign_grade", "unenroll_student", "get_student_enrollments",
     "get_course_enrollments", "get_student_gpa", "get_course_average"}

\* C10: no call on the enrollment service changes the student collection,
\* the course collection, the students document or the courses document.
C10_EnrollmentServiceReadsOnly ==
    [][ last'.op \in EnrollmentOps =>
          /\ students' = students
          /\ courses' = courses
          /\ files'[StudentsFile] = files[StudentsFile]
          /\ files'[CoursesFile] = files[CoursesFile]
      ]_vars

\* a record has been removed while the two other stores hold entities
C10_Witness ==
    /\ last.op = "unenroll_student"
    /\ last.ret = PyBool(TRUE)
    /\ Len(students) > 0
    /\ Len(courses) > 0
    /\ files[StudentsFile].exists

\* C7: load_X after save_X returns the list that was saved: the same
\* length and order, equal fields, a grade that is None as None and a number
\* as that number; it is the list of the latest save.
C7_SaveLoadRoundTrip ==
    /\ last.op = "load_students" => last.ret = PyList(given.students)
    /\ last.op = "load_courses" => last.ret = PyList(given.courses)
    /\ last.op = "load_enrollments" => last.ret = PyList(given.enrollments)

\* two enrollments have been loaded, one without a grade and one with the grade 0
C7_Witness ==
    /\ last.op = "load_enrollments"
    /\ Len(last.ret.v) = 2
    /\ IsNone(last.ret.v[2].grade)
    /\ last.ret.v[1].grade = PyInt(0)
    /\ last.ret.v = given.enrollments

-----------------------------------------------------------------------------

\* the value of a field after an update that succeeded
Provided(new, old) == IF IsNone(new) THEN old ELSE new

\* C11: an update that succeeds changes, on the entity with the key, the
\* fields provided and no other; the key, the position and every other
\* entity are as before.  An update of an absent key fails with 'not found'
\* and changes neither the collection nor any document.
C11_UpdateChangesOnlyProvided ==
    [][ /\ \A id \in ThreeStudentIds, a \in KeyStudentChanges, now \in Instants :
              ( /\ last'.op = "update_student" /\ last'.student_id = id
                /\ UpdateStudent(id, a[1], a[2], a[3], now) ) =>
              IF ~HasStudent(id)
              THEN /\ Msg(last'.error) = "Student with ID not found."
                   /\ students' = students
                   /\ files' = files
                   /\ last'.wrote = <<>>
              ELSE last'.error = NoError =>
                   /\ Len(students') = Len(students)
                   /\ \A i \in 1..Len(students) :
                         students'[i] =
                            IF students[i].student_id = id
                            THEN Student(id, Provided(a[1], students[i].name),
                                         Provided(a[2], students[i].email),
                                         Provided(a[3], students[i].program))
                            ELSE students[i]
        /\ \A code \in ThreeCourseCodes, a \in KeyCourseChanges, now \in Instants :
              ( /\ last'.op = "update_course" /\ last'.course_code = code
                /\ UpdateCourse(code, a[1], a[2], a[3], now) ) =>
              IF ~HasCourse(code)
              THEN /\ Msg(last'.error) = "Course with code not found."
                   /\ courses' = courses
                   /\ files' = files
                   /\ last'.wrote = <<>>
              ELSE last'.error = NoError =>
                   /\ Len(courses') = Len(courses)
                   /\ \A i \in 1..Len(courses) :
                         courses'[i] =
                            IF courses[i].course_code = code
                            THEN Course(code, Provided(a[1], courses[i].name),
                                        Provided(a[2], courses[i].credits),
                                        Provided(a[3], courses[i].instructor))
                            ELSE courses[i]
      ]_vars

\* the second of three students has been renamed: it is still second and
\* its email, which was not provided, is the one it was created with
C11_Witness ==
    /\ last.op = "update_student"
    /\ last.error = NoError
    /\ Len(students) = 3
    /\ students[2].student_id = last.student_id
    /\ students[2].name = Bob
    /\ students[2].email = AnnMail
    /\ students[1].name = Ann

\* C12: delete_student / delete_course never raises.  Of a present key it
\* removes that entity alone, the others keeping their order, saves and
\* returns True; of an absent key it returns False and changes neither the
\* collection nor any document; a delete that follows a delete of the same
\* key returns False.
C12_Delete ==
    [][ /\ last'.op = "delete_student" =>
              LET id == last'.student_id
                  others(x) == x.student_id # id
              IN /\ last'.error = NoError
                 /\ IF HasStudent(id)
                    THEN /\ students' = SelectSeq(students, others)
                         /\ Len(students') = Len(students) - 1
                         /\ last'.ret = PyBool(TRUE)
                         /\ last'.wrote = <<StudentsFile>>
                         /\ load_students(files') = students'
                    ELSE /\ last'.ret = PyBool(FALSE)
                         /\ students' = students
                         /\ files' = files
                         /\ last'.wrote = <<>>
                 /\ (last.op = "delete_student" /\ last.student_id = id) =>
                       last'.ret = PyBool(FALSE)
        /\ last'.op = "delete_course" =>
              LET code == last'.course_code
                  others(x) == x.course_code # code
              IN /\ last'.error = NoError
                 /\ IF HasCourse(code)
                    THEN /\ courses' = SelectSeq(courses, others)
                         /\ Len(courses') = Len(courses) - 1
                         /\ last'.ret = PyBool(TRUE)
                         /\ last'.wrote = <<CoursesFile>>
                         /\ load_courses(files') = courses'
                    ELSE /\ last'.ret = PyBool(FALSE)
                         /\ courses' = courses
                         /\ files' = files
                         /\ last'.wrote = <<>>
                 /\ (last.op = "delete_course" /\ last.course_code = code) =>
                       last'.ret = PyBool(FALSE)
      ]_vars

\* the second of three students, created in the order S003, S002, S001,
\* has been deleted: the other two are left in that order
C12_Witness ==
    /\ last.op = "delete_student"
    /\ last.ret = PyBool(TRUE)
    /\ last.student_id = S002
    /\ Len(students) = 2
    /\ students[1].student_id = S003
    /\ students[2].student_id = S001

InSeq(keys, k) == \E i \in 1..Len(keys) : keys[i] = k

\* C13: in stores that started empty, get_student(k) / get_course(k)
\* returns the entity with key k exactly when a create of k has succeeded
\* and no delete of k has succeeded since, and None otherwise; the call
\* raises nothing and changes neither the collection nor any document.
C13_GetFindsCreatedKeys ==
    [][ /\ last'.op = "get_student" =>
              /\ last'.error = NoError
              /\ IF InSeq(createdKeys.students, last'.student_id)
                 THEN /\ last'.ret.t = "Student"
                      /\ last'.ret.obj.student_id = last'.student_id
                 ELSE last'.ret = None
              /\ students' = students
              /\ files' = files
              /\ last'.wrote = <<>>
        /\ last'.op = "get_course" =>
              /\ last'.error = NoError
              /\ IF InSeq(createdKeys.courses, last'.course_code)
                 THEN /\ last'.ret.t = "Course"
                      /\ last'.ret.obj.course_code = last'.course_code
                 ELSE last'.ret = None
              /\ courses' = courses
              /\ files' = files
              /\ last'.wrote = <<>>
      ]_vars

\* the student created third has been found
C13_Witness ==
    /\ last.op = "get_student"
    /\ last.ret.t = "Student"
    /\ Len(students) = 3
    /\ students[3].student_id = last.student_id

\* C14: unenroll_student(p, o) of a pair that has a record removes that
\* record alone, the other records (those of p and those of o included)
\* keeping their order, saves and returns True; of a pair without a record
\* it returns False and changes neither the collection nor any document.
C14_Unenroll ==
    [][ last'.op = "unenroll_student" =>
           LET id == last'.student_id
               code == last'.course_code
               others(e) == ~(e.student_id = id /\ e.course_code = code)
           IN /\ last'.error = NoError
              /\ IF HasEnrollment(id, code)
                 THEN /\ enrollments' = SelectSeq(enrollments, others)
                      /\ Len(enrollments') = Len(enrollments) - 1
                      /\ last'.ret = PyBool(TRUE)
                      /\ last'.wrote = <<EnrollmentsFile>>
                      /\ load_enrollments(files') = enrollments'
                 ELSE /\ last'.ret = PyBool(FALSE)
                      /\ enrollments' = enrollments
                      /\ files' = files
                      /\ last'.wrote = <<>>
      ]_vars

\* (S001, CSC1234) has been unenrolled: the other course of S001 and the
\* other student of CSC1234 are left, graded, in the order they were enrolled
C14_Witness ==
    /\ last.op = "unenroll_student"
    /\ last.ret = PyBool(TRUE)
    /\ last.student_id = S001 /\ last.course_code = CSC1234
    /\ Len(enrollments) = 2
    /\ enrollments[1].student_id = S002 /\ enrollments[1].grade = PyInt(0)
    /\ enrollments[2].course_code = MAT2000 /\ enrollments[2].grade = PyFloat(905)

\* the sum, in tenths, of the grades of the records at the indices S
RECURSIVE TotalOf(_)
TotalOf(S) ==
    IF S = {} THEN 0
    ELSE LET i == CHOOSE i \in S : TRUE
         IN Tenths(enrollments[i].grade) + TotalOf(S \ {i})

\* the float q is total tenths over count records
IsMean(q, total, count) ==
    /\ q.t = "float"
    /\ q.den # 0
    /\ IF count = 0 THEN q.num = 0 ELSE q.num * 10 * count = total * q.den

\* C15: get_student_gpa(p) / get_course_average(o) is the sum of the grades
\* of the records of p / o that have a grade (a grade 0 is a grade) over
\* the number of those records, and 0.0 when there is none.
C15_Averages ==
    /\ last.op = "get_student_gpa" =>
          LET S == {i \in 1..Len(enrollments) :
                       /\ enrollments[i].student_id = last.student_id
                       /\ enrollments[i].grade # None}
          IN IsMean(last.ret, TotalOf(S), Cardinality(S))
    /\ last.op = "get_course_average" =>
          LET S == {i \in 1..Len(enrollments) :
                       /\ enrollments[i].course_code = last.course_code
                       /\ enrollments[i].grade # None}
          IN IsMean(last.ret, TotalOf(S), Cardinality(S))

\* the average of a course with the grades 0 and 90.5 has been taken: 45.25
C15_Witness ==
    /\ last.op = "get_course_average"
    /\ last.course_code = CSC1234
    /\ \E i, j \in 1..Len(enrollments) :
          /\ enrollments[i].course_code = CSC1234 /\ enrollments[i].grade = PyInt(0)
          /\ enrollments[j].course_code = CSC1234 /\ enrollments[j].grade = PyFloat(905)
    /\ last.ret.num * 20 = 905 * last.ret.den

\* the bands, by their inclusive lower bounds
Bands == <<[lo |-> 90, letter |-> LetterAPlus], [lo |-> 85, letter |-> LetterA],
           [lo |-> 80, letter |-> LetterBPlus], [lo |-> 75, letter |-> LetterB],
           [lo |-> 70, letter |-> LetterCPlus], [lo |-> 65, letter |-> LetterC],
           [lo |-> 60, letter |-> LetterDPlus], [lo |-> 55, letter |-> LetterD]>>

\* the band with the highest lower bound that n reaches, F when it reaches none
BandOf(n) ==
    LET reached == {b \in 1..Len(Bands) : Bands[b].lo <= n}
    IN IF reached = {} THEN LetterF
       ELSE Bands[CHOOSE b \in reached : \A c \in reached : Bands[c].lo <= Bands[b].lo].letter

\* the place of a letter on the scale, F lowest
Rank(letter) ==
    IF letter = LetterF THEN 0
    ELSE LET b == CHOOSE b \in 1..Len(Bands) : Bands[b].letter = letter
         IN Len(Bands) + 1 - b

\* C16: for an int grade in 0..100 calculate_letter_grade returns the band
\* with the highest inclusive lower bound the grade reaches (90 A+, 85 A,
\* 80 B+, 75 B, 70 C+, 65 C, 60 D+, 55 D, else F); without a grade it
\* returns N/A; no lower grade gets a higher letter.
C16_LetterGrade ==
    last.op = "calculate_letter_grade" =>
       LET grade == enrollments[1].grade
       IN IF grade = None THEN last.ret = LetterNA
          ELSE /\ last.ret = BandOf(grade.v)
               /\ \A below \in MinGrade..grade.v :
                     Rank(calculate_letter_grade([enrollments[1] EXCEPT !.grade = PyInt(below)]))
                        <= Rank(last.ret)
               /\ grade.v = 90 => last.ret = LetterAPlus
               /\ grade.v = 89 => last.ret = LetterA
               /\ grade.v = 84 => last.ret = LetterBPlus
               /\ grade.v = 79 => last.ret = LetterB
               /\ grade.v = 74 => last.ret = LetterCPlus
               /\ grade.v = 69 => last.ret = LetterC
               /\ grade.v = 64 => last.ret = LetterDPlus
               /\ grade.v = 59 => last.ret = LetterD
               /\ grade.v = 54 => last.ret = LetterF

\* the letter of the grade 85, the lowest A, has been asked
C16_Witness ==
    /\ last.op = "calculate_letter_grade"
    /\ enrollments[1].grade = PyInt(85)
    /\ last.ret = LetterA

\* the same character, or the same letter in the other case
SameLetter(a, b) ==
    a = b \/ \E n \in 1..Len(UpperSeq) : {a, b} = {UpperSeq[n], LowerSeq[n]}

\* needle occurs in hay, the case of the letters disregarded
OccursIn(needle, hay) ==
    \E k \in 0..(Len(hay) - Len(needle)) :
        \A j \in 1..Len(needle) : SameLetter(hay[k + j], needle[j])

\* a criterion that is neither absent nor the empty string
Supplied(x) == x # None /\ x # Empty

\* the elements of list at the indices S, from index i on, in the order of list
RECURSIVE Picked(_, _, _)
Picked(list, S, i) ==
    IF i > Len(list) THEN <<>>
    ELSE (IF i \in S THEN <<list[i]>> ELSE <<>>) \o Picked(list, S, i + 1)

\* C17: search_students / search_courses returns the entities that meet
\* every criterion supplied (name, course code and instructor: substring,
\* the case of letters disregarded; program: equality), once each and in
\* the order of the collection; a criterion that is absent or empty
\* filters nothing, so without criteria all entities are returned; neither
\* the collection nor any document changes.
C17_Search ==
    [][ /\ last'.op = "search_students" =>
                 LET name == last'.criteria[1]
                     program == last'.criteria[2]
                     S == {i \in 1..Len(students) :
                              /\ Supplied(name) => OccursIn(name.v, students[i].name.v)
                              /\ Supplied(program) => students[i].program = program}
                 IN /\ last'.error = NoError
                    /\ Deref(last'.ret) = Picked(students, S, 1)
                    /\ (~Supplied(name) /\ ~Supplied(program)) => Deref(last'.ret) = students
                    /\ students' = students
                    /\ files' = files
                    /\ last'.wrote = <<>>
        /\ last'.op = "search_courses" =>
                 LET code == last'.criteria[1]
                     name == last'.criteria[2]
                     instructor == last'.criteria[3]
                     S == {i \in 1..Len(courses) :
                              /\ Supplied(code) => OccursIn(code.v, courses[i].course_code.v)
                              /\ Supplied(name) => OccursIn(name.v, courses[i].name.v)
                              /\ Supplied(instructor) =>
                                    OccursIn(instructor.v, courses[i].instructor.v)}
                 IN /\ last'.error = NoError
                    /\ Deref(last'.ret) = Picked(courses, S, 1)
                    /\ (~Supplied(code) /\ ~Supplied(name) /\ ~Supplied(instructor)) =>
                          Deref(last'.ret) = courses
                    /\ courses' = courses
                    /\ files' = files
                    /\ last'.wrote = <<>>
      ]_vars

\* a search has returned the second and the third of three students, in
\* that order, and not the first
C17_Witness ==
    /\ last.op = "search_students"
    /\ Len(students) = 3
    /\ students[1].name = Bob
    /\ students[2].name = AnnaUpper
    /\ Deref(last.ret) = <<students[2], students[3]>>

\* the keys of a sequence of students / of courses
StudentKeys(list) == [i \in 1..Len(list) |-> list[i].student_id]
CourseKeys(list) == [i \in 1..Len(list) |-> list[i].course_code]

\* C18: list_students / list_courses returns the entities in the order
\* their creates succeeded, less the ones deleted; two calls with nothing
\* in between return equal sequences; a create or a delete made after the
\* call changes nothing in the sequence the caller was given.
C18_ListSnapshot ==
    [][ /\ last'.op = "list_students" =>
              /\ Deref(last'.ret) = students
              /\ StudentKeys(Deref(last'.ret)) = createdKeys.students
              /\ last.op = "list_students" => Deref(last'.ret) = Deref(last.ret)
        /\ last'.op = "list_courses" =>
              /\ Deref(last'.ret) = courses
              /\ CourseKeys(Deref(last'.ret)) = createdKeys.courses
              /\ last.op = "list_courses" => Deref(last'.ret) = Deref(last.ret)
        /\ ( /\ last'.op \in {"create_student", "delete_student", "create_course",
                              "delete_course"}
             /\ held # None ) =>
              Deref(held)' = Deref(held)
      ]_vars

\* the caller was given two students, then a third was created: the
\* sequence it holds is still the one of the two
C18_Witness ==
    /\ last.op = "create_student"
    /\ last.error = NoError
    /\ held # None
    /\ Len(students) = 3
    /\ Deref(held) = SubSeq(students, 1, 2)

\* the rules of the fields, as the messages of validate() word them
NonBlank(x) == IsStr(x) /\ ~StripIsEmpty(x.v)

\* local part, @, domain, a dot and at least two letters, and nothing else
EmailShaped(s) ==
    \E at \in 2..Len(s), dot \in 3..Len(s) :
        /\ s[at] = "@"
        /\ AllIn(s, 1, at - 1, EmailLocal)
        /\ dot > at + 1
        /\ s[dot] = "."
        /\ AllIn(s, at + 1, dot - 1, EmailDomain)
        /\ Len(s) - dot >= MinTld
        /\ AllIn(s, dot + 1, Len(s), Upper \cup Lower)

\* three uppercase letters followed by four digits, and nothing else
CodeShaped(s) ==
    /\ Len(s) = CodeLetters + CodeDigits
    /\ AllIn(s, 1, CodeLetters, Upper)
    /\ AllIn(s, CodeLetters + 1, Len(s), Digit)

CreditsInRange(x) == IsInt(x) /\ MinCredits <= x.v /\ x.v <= MaxCredits
GradeInRange(x) ==
    IsNone(x) \/ (IsNumber(x) /\ 10 * MinGrade <= Tenths(x) /\ Tenths(x) <= 10 * MaxGrade)

\* the list returned holds one of the messages
Mentions(ret, messages) == \E i \in 1..Len(ret.v) : ret.v[i] \in messages

\* every text field of the entity holds a str
TextTyped(self) ==
    CASE self.t = "Student" ->
            /\ IsStr(self.obj.student_id) /\ IsStr(self.obj.name)
            /\ IsStr(self.obj.email) /\ IsStr(self.obj.program)
      [] self.t = "Course" ->
            IsStr(self.obj.course_code) /\ IsStr(self.obj.name) /\ IsStr(self.obj.instructor)
      [] self.t = "Enrollment" ->
            IsStr(self.obj.student_id) /\ IsStr(self.obj.course_code)

\* C19 as claimed: validate() returns the empty list exactly when every
\* field meets its rule (Student: id, name, program not blank, email not
\* blank and email-shaped; Course: code three uppercase letters followed
\* by four digits, name and instructor not blank, credits an int in 1..6;
\* Enrollment: student_id and course_code not blank, grade absent or a
\* number in 0..100), and holds a message naming each field that does not.
C19_AsClaimed ==
    (last.op = "validate" /\ TextTyped(last.self)) =>
       LET x == last.self.obj
       IN /\ last.error = NoError
          /\ CASE last.self.t = "Student" ->
                    LET badId == ~NonBlank(x.student_id)
                        badName == ~NonBlank(x.name)
                        badEmail == ~(NonBlank(x.email) /\ EmailShaped(x.email.v))
                        badProgram == ~NonBlank(x.program)
                    IN /\ (last.ret.v = <<>>) <=>
                             ~(badId \/ badName \/ badEmail \/ badProgram)
                       /\ badId => Mentions(last.ret,
                                      {"Student ID is required and cannot be empty"})
                       /\ badName => Mentions(last.ret, {"Name is required and cannot be empty"})
                       /\ badEmail => Mentions(last.ret,
                                         {"Email is required and cannot be empty",
                                          "Email format is invalid"})
                       /\ badProgram => Mentions(last.ret,
                                           {"Program is required and cannot be empty"})
               [] last.self.t = "Course" ->
                    LET badCode == ~(NonBlank(x.course_code) /\ CodeShaped(x.course_code.v))
                        badName == ~NonBlank(x.name)
                        badCredits == ~CreditsInRange(x.credits)
                        badInstructor == ~NonBlank(x.instructor)
                    IN /\ (last.ret.v = <<>>) <=>
                             ~(badCode \/ badName \/ badCredits \/ badInstructor)
                       /\ badCode => Mentions(last.ret,
                                        {"Course code is required and cannot be empty",
                                         "Course code must be in format XXX1234 (three uppercase letters followed by four digits)"})
                       /\ badName => Mentions(last.ret,
                                        {"Course name is required and cannot be empty"})
                       /\ badCredits => Mentions(last.ret,
                                           {"Credits must be an integer",
                                            "Credits must be between 1 and 6"})
                       /\ badInstructor => Mentions(last.ret,
                                              {"Instructor name is required and cannot be empty"})
               [] last.self.t = "Enrollment" ->
                    LET badId == ~NonBlank(x.student_id)
                        badCode == ~NonBlank(x.course_code)
                        badGrade == ~GradeInRange(x.grade)
                    IN /\ (last.ret.v = <<>>) <=> ~(badId \/ badCode \/ badGrade)
                       /\ badId => Mentions(last.ret,
                                      {"Student ID is required and cannot be empty"})
                       /\ badCode => Mentions(last.ret,
                                        {"Course code is required and cannot be empty"})
                       /\ badGrade => Mentions(last.ret,
                                         {"Grade must be a number",
                                          "Grade must be between 0 and 100"})

\* C20 as claimed: validate() never raises; whatever values the constructor
\* was given, values that are no str included, it returns a list of messages.
C20_AsClaimed ==
    last.op = "validate" => (last.error = NoError /\ last.ret.t = "list")

\* C21: a load of an absent document gives the empty list, a load of a
\* document that is not JSON raises: when main() finds such a document it
\* prints a fatal error and exits with no service and no menu, when it
\* finds none it enters the menu with an empty collection for each absent
\* document; and no step ever overwrites a document that is not JSON.
C21_LoadOrFail ==
    [][ /\ \A f \in FileNames : files[f] = Corrupt => files'[f] = Corrupt
        /\ (ui.pc = "none" /\ ui'.pc # "none") =>
              IF \E f \in FileNames : files[f] = Corrupt
              THEN /\ ui'.pc = "exit(1)"
                   /\ Len(ui'.out) = 1
                   /\ ui'.out[1].text = "Fatal error: "
                   /\ ui'.out[1].arg.type = "Exception"
                   /\ last'.error.type = "Exception"
                   /\ files[last'.error.errors[1]] = Corrupt
                   /\ students' = <<>> /\ courses' = <<>> /\ enrollments' = <<>>
              ELSE /\ ui'.pc = "main"
                   /\ last'.error = NoError
                   /\ ~files[StudentsFile].exists => students' = <<>>
                   /\ ~files[CoursesFile].exists => courses' = <<>>
                   /\ ~files[EnrollmentsFile].exists => enrollments' = <<>>
                   /\ files[StudentsFile].exists => Len(students') = 1
        /\ ui.pc = "exit(1)" => ui'.pc = "exit(1)"
      ]_vars

\* main() has exited on a course document that is not JSON, the student
\* document being absent
C21_Witness ==
    /\ ui.pc = "exit(1)"
    /\ files[CoursesFile] = Corrupt
    /\ ~files[StudentsFile].exists

SubMenus == {"students", "courses", "enrollments"}
Recognised == {PyStr(<<"1">>), PyStr(<<"2">>), PyStr(<<"3">>), PyStr(<<"0">>)}
Guarded == {"create_student", "create_course", "enroll_student", "assign_grade"}

\* C24: in a turn of a menu loop, a ValueError of create_student,
\* create_course, enroll_student or assign_grade is printed as
\* "Error: <message>" and the same menu is shown again; "0" in a sub-menu
\* leads to the main menu; run() returns only on "0" at the main menu; an
\* unrecognised choice prints the invalid-choice text, changes nothing and
\* shows the same menu again.
C24_MenuLoop ==
    [][ /\ ui.pc \in SubMenus =>
              /\ ui'.choice = PyStr(<<"0">>) => ui'.pc = "main"
              /\ ui'.choice # PyStr(<<"0">>) => ui'.pc = ui.pc
              /\ (ui'.choice = PyStr(<<"1">>) \/ (ui.pc = "enrollments" /\ ui'.choice = PyStr(<<"2">>))) =>
                    /\ last'.op \in Guarded
                    /\ last'.error # NoError =>
                          /\ last'.error.type = "ValueError"
                          /\ ui'.out[Len(ui'.out)] = [text |-> "Error: ", arg |-> last'.error]
                          /\ ui'.pc = ui.pc
                    /\ last'.error = NoError => ui'.out[Len(ui'.out)].text # "Error: "
        /\ ui.pc = "main" =>
              /\ ui'.choice = PyStr(<<"0">>) <=> ui'.pc = "exit(0)"
              /\ ui'.choice \notin Recognised => ui'.pc = "main"
        /\ ui.pc \in SubMenus \cup {"main"} /\ ui'.choice \notin Recognised =>
              /\ ui'.out = <<[text |-> "Invalid choice. Please try again.", arg |-> None]>>
              /\ UNCHANGED <<students, courses, enrollments, files, last>>
        /\ ui'.pc = "exit(0)" => ui.pc \in {"main", "exit(0)"}
        /\ ui.pc = "exit(0)" => ui'.pc = "exit(0)"
      ]_vars

\* assign_grade has raised for a grade out of range, the error is what was
\* printed, and the enrollment menu is shown again
C24_Witness ==
    /\ ui.pc = "enrollments"
    /\ last.op = "assign_grade"
    /\ last.error # NoError
    /\ last.error.errors # <<>>
    /\ Len(ui.out) = 1
    /\ ui.out[1] = [text |-> "Error: ", arg |-> last.error]

\* the backing document of a collection
DocumentOf(type) ==
    CASE type = "students" -> "students.json"
      [] type = "courses" -> "courses.json"
      [] type = "enrollments" -> "enrollments.json"

\* C22: create_backup of a collection leaves the three documents and the
\* collections in memory as they were; when the document of the collection
\* is absent it returns None and creates nothing, else it returns the name
\* of a backup that now holds the content of the document, no other backup
\* being touched; and a step that is no create_backup changes no backup.
C22_Backup ==
    [][ /\ (last'.op = "create_backup" /\ last'.error = NoError) =>
              LET source == DocumentOf(last'.file_type)
                  before == files["*.bak"]
                  after == files'["*.bak"]
              IN /\ \A f \in FileNames : files'[f] = files[f]
                 /\ UNCHANGED <<students, courses, enrollments>>
                 /\ IF ~files[source].exists
                    THEN last'.ret = None /\ files' = files
                    ELSE /\ last'.ret.t = "Path"
                         /\ DOMAIN after = DOMAIN before \cup {last'.ret.obj}
                         /\ after[last'.ret.obj] = files[source]
                         /\ \A n \in DOMAIN before \ {last'.ret.obj} : after[n] = before[n]
        /\ last'.op # "create_backup" => files'["*.bak"] = files["*.bak"]
      ]_vars

\* a delete has just rewritten the student document, and a backup made
\* before it still holds the student that was deleted
C22_Witness ==
    /\ last.op = "delete_student"
    /\ last.ret = PyBool(TRUE)
    /\ \E n \in DOMAIN files["*.bak"] :
          /\ files["*.bak"][n].key = "students"
          /\ Len(files["*.bak"][n].items) = 2
          /\ Len(files[StudentsFile].items) = 1

\* C23: with two instances over one document, a call on one instance
\* succeeds or fails by that instance's own list alone (a create succeeds
\* exactly when the key is not in it, an update or delete finds the key
\* exactly when it is), it leaves the list of the other instance alone,
\* and after a write the document holds the list of the instance that
\* wrote, whatever the other instance had created since construction.
C23_LastWriterWins ==
    [][ last'.op # "__init__" =>
          LET second == "instance" \in DOMAIN last'
              ofStudents == last'.student_id # None
              key == IF ofStudents THEN last'.student_id ELSE last'.course_code
              own == IF second THEN (IF ofStudents THEN peer.students ELSE peer.courses)
                     ELSE (IF ofStudents THEN students ELSE courses)
              ownAfter == IF second
                          THEN (IF ofStudents THEN peer'.students ELSE peer'.courses)
                          ELSE (IF ofStudents THEN students' ELSE courses')
              has == \E i \in 1..Len(own) :
                        (IF ofStudents THEN own[i].student_id ELSE own[i].course_code) = key
              document == IF ofStudents THEN load_students(files') ELSE load_courses(files')
          IN /\ last'.op \in {"create_student", "create_course"} =>
                   (last'.error = NoError <=> ~has)
             /\ last'.op \in {"update_student"} => (last'.error = NoError <=> has)
             /\ last'.op \in {"delete_student", "delete_course"} =>
                   (last'.error = NoError /\ (last'.ret = PyBool(TRUE) <=> has))
             /\ last'.wrote # <<>> => document = ownAfter
             /\ last'.wrote = <<>> => files' = files
             /\ IF second THEN students' = students /\ courses' = courses
                ELSE peer' = peer
      ]_vars

\* the second instance wrote last: the document holds its list, and S002,
\* which no document held at construction and the first instance created,
\* is in the list of the first instance and not in the document
C23_Witness ==
    /\ "instance" \in DOMAIN last
    /\ last.wrote = <<StudentsFile>>
    /\ load_students(files) = peer.students
    /\ peer.students # <<>>
    /\ \E i \in 1..Len(students) : students[i].student_id = PyStr(<<"S","0","0","2">>)
    /\ \A j \in 1..Len(peer.students) :
          peer.students[j].student_id # PyStr(<<"S","0","0","2">>)


\* the error raised carries the message
Carries(e, message) == \E i \in 1..Len(e.errors) : e.errors[i] = message

\* how many of the conditions hold
HowMany(conditions) == Cardinality({i \in 1..Len(conditions) : conditions[i]})

PassesValidate(class, x) ==
    CASE class = "Student" -> Student_validate(x) = [error |-> NoError, ret |-> PyList(<<>>)]
      [] class = "Course" -> Course_validate(x) = [error |-> NoError, ret |-> PyList(<<>>)]
      [] class = "Enrollment" ->
            Enrollment_validate(x) = [error |-> NoError, ret |-> PyList(<<>>)]

AllPass(class, list) == \A i \in 1..Len(list) : PassesValidate(class, list[i])

\* C26 as claimed: whatever calls were made on services constructed over
\* absent documents, and whether they succeeded or failed, validate() finds
\* no error in any entity of a collection in memory or of a document.
C26_AsClaimed ==
    /\ AllPass("Student", students)
    /\ AllPass("Course", courses)
    /\ AllPass("Enrollment", enrollments)
    /\ AllPass("Student", load_students(files))
    /\ AllPass("Course", load_courses(files))
    /\ AllPass("Enrollment", load_enrollments(files))

\* C27: a successful enroll_student appends one record at the end of the
\* enrollments, for the pair of the call and with no grade, returns it and
\* saves the list; this also holds for a pair that was unenrolled earlier
\* while it carried a grade: the earlier grade does not come back
C27_EnrollAppends ==
    [][(last'.op = "enroll_student" /\ last'.error = NoError) =>
          /\ enrollments' = Append(enrollments, enrollments'[Len(enrollments')])
          /\ LET e == enrollments'[Len(enrollments')]
             IN /\ e.student_id = last'.student_id
                /\ e.course_code = last'.course_code
                /\ IsNone(e.grade)
                /\ last'.ret = PyObj("Enrollment", e)
          /\ load_enrollments(files') = enrollments'
          /\ \A i \in 1..Len(enrollments) :
                ~(/\ enrollments[i].student_id = last'.student_id
                  /\ enrollments[i].course_code = last'.course_code)]_vars

\* a pair that was unenrolled while graded has enrolled again, behind another
\* record, and its record has no grade
C27_Witness ==
    /\ last.op = "enroll_student"
    /\ last.error = NoError
    /\ <<last.student_id, last.course_code>> \in removedKeys
    /\ Len(enrollments) >= 2
    /\ IsNone(enrollments[Len(enrollments)].grade)
    /\ enrollments[Len(enrollments)].student_id = last.student_id

\* C28: deleting and creating students and courses leaves the enrollments and
\* their document alone, so the records of a deleted student or course stay
\* and belong to whoever is created with the same id or code: the queries
\* report them, enroll_student of such a pair is refused as a duplicate,
\* and assign_grade and unenroll_student act on a record whether or not its
\* student and course exist
C28_OrphansRejoin ==
    [][/\ last'.op \in {"delete_student", "create_student",
                        "delete_course", "create_course"} =>
              /\ enrollments' = enrollments
              /\ files'[EnrollmentsFile] = files[EnrollmentsFile]
       /\ last'.op = "get_student_enrollments" =>
              Deref(last'.ret) =
                 SelectSeq(enrollments, LAMBDA e : e.student_id = last'.student_id)
       /\ last'.op = "get_student_gpa" =>
              LET S == {i \in 1..Len(enrollments) :
                           /\ enrollments[i].student_id = last'.student_id
                           /\ enrollments[i].grade # None}
              IN IsMean(last'.ret, TotalOf(S), Cardinality(S))
       /\ (/\ last'.op = "enroll_student"
           /\ HasStudent(last'.student_id)
           /\ HasCourse(last'.course_code)
           /\ HasEnrollment(last'.student_id, last'.course_code)) =>
              /\ Msg(last'.error) = AlreadyEnrolled
              /\ enrollments' = enrollments
       /\ (/\ last'.op = "assign_grade"
           /\ HasEnrollment(last'.student_id, last'.course_code)) =>
              \/ /\ last'.error = NoError
                 /\ Len(enrollments') = Len(enrollments)
                 /\ last'.ret = PyObj("Enrollment",
                        enrollments'[PairIndex(last'.student_id, last'.course_code)])
                 /\ ~OutOfRange(enrollments'[PairIndex(last'.student_id,
                                                       last'.course_code)].grade)
              \/ /\ Msg(last'.error) = "Invalid grade"
                 /\ enrollments' = enrollments
       /\ \A id \in {S001, S002} :
              (/\ HasEnrollment(id, CSC1234)
               /\ \E t \in Instants : AssignGrade(id, CSC1234, PyInt(70), t)) =>
                  /\ last'.error = NoError
                  /\ enrollments'[PairIndex(id, CSC1234)].grade = PyInt(70)
       /\ (/\ last'.op = "unenroll_student"
           /\ HasEnrollment(last'.student_id, last'.course_code)) =>
              /\ last'.ret = PyBool(TRUE)
              /\ Len(enrollments') = Len(enrollments) - 1]_vars

\* the student S001 was deleted and created again under another name, the
\* record of an earlier run with its grade is still there and the average
\* of the new student reports it
C28_Witness ==
    /\ last.op = "get_student_gpa"
    /\ last.student_id = S001
    /\ \E k \in 1..Len(createdKeys.students) : createdKeys.students[k] = S001
    /\ \E i \in 1..Len(students) :
          students[i].student_id = S001 /\ students[i].name = Bob
    /\ \E i \in 1..Len(enrollments) :
          /\ enrollments[i].student_id = S001
          /\ enrollments[i].enrollment_date = EarlierRun
          /\ enrollments[i].grade = PyFloat(905)
    /\ last.ret.num * 10 = 905 * last.ret.den

\* the list a service keeps for a document after the step
KeptNext(file) ==
    CASE file = StudentsFile -> students'
      [] file = CoursesFile -> courses'
      [] file = EnrollmentsFile -> enrollments'

\* the document of the file reads back as the list
Agrees(fs, file, list) ==
    /\ Load(fs, file).error = NoError
    /\ Load(fs, file).ret.v = list

\* the document a method writes
FileOf(op) ==
    CASE op \in {"create_student", "update_student", "delete_student"} -> StudentsFile
      [] op \in {"create_course", "update_course", "delete_course"} -> CoursesFile
      [] OTHER -> EnrollmentsFile

\* the call reached its write and the write raised
Failed(call) == "saving" \in DOMAIN call /\ call.saving /\ call.disk # "written"

\* the call wrote its document
Wrote(call, file) == call.error = NoError /\ call.wrote = <<file>>

\* the exception of the write leaves the method after one attempt; the
\* document is as it was or empty; the other lists and documents are untouched
Propagates ==
    Failed(last') =>
       /\ last'.error = OSError
       /\ last'.wrote = <<>>
       /\ files'[FileOf(last'.op)] =
             IF last'.disk = "refused" THEN files[FileOf(last'.op)] ELSE Truncated
       /\ \A f \in FileNames \ {FileOf(last'.op)} :
             files'[f] = files[f] /\ KeptNext(f) = Kept(f)

\* the list has the change of the call although the write raised
ChangeInPlace ==
    Failed(last') =>
       /\ last'.op = "create_student" =>
             /\ Len(students') = Len(students) + 1
             /\ SubSeq(students', 1, Len(students)) = students
             /\ students'[Len(students')].student_id = last'.student_id
       /\ last'.op = "create_course" =>
             /\ Len(courses') = Len(courses) + 1
             /\ SubSeq(courses', 1, Len(courses)) = courses
             /\ courses'[Len(courses')].course_code = last'.course_code
       /\ last'.op = "enroll_student" =>
             /\ Len(enrollments') = Len(enrollments) + 1
             /\ SubSeq(enrollments', 1, Len(enrollments)) = enrollments
             /\ enrollments'[Len(enrollments')].student_id = last'.student_id
             /\ enrollments'[Len(enrollments')].course_code = last'.course_code
       /\ last'.op = "delete_student" =>
             /\ Len(students') = Len(students) - 1
             /\ \A i \in 1..Len(students') : students'[i].student_id # last'.student_id
       /\ last'.op = "delete_course" =>
             /\ Len(courses') = Len(courses) - 1
             /\ \A i \in 1..Len(courses') : courses'[i].course_code # last'.course_code
       /\ last'.op = "unenroll_student" =>
             /\ Len(enrollments') = Len(enrollments) - 1
             /\ \A i \in 1..Len(enrollments') :
                   ~(/\ enrollments'[i].student_id = last'.student_id
                     /\ enrollments'[i].course_code = last'.course_code)
       /\ last'.op = "update_course" =>
             courses'[get_course(courses, last'.course_code)].credits = PyInt(4)
       /\ last'.op = "assign_grade" =>
             enrollments'[_get_enrollment(enrollments, last'.student_id,
                                          last'.course_code)].grade = PyInt(70)
       /\ last'.op = "update_student" =>
             \A name \in {Ann, Bob}, disk \in DiskOutcomes, t \in Instants :
                Plain(StudentsOnDisk("update_student", S001,
                         update_student(students, files, S001, name, None, None, t),
                         disk)) =>
                   students'[get_student(students, S001)].name = name

NoCriterion(criteria) == \A k \in 1..Len(criteria) : ~Truthy(criteria[k])

\* what the caller reads in the list it keeps, after the step
HeldNext ==
    IF "alias" \in DOMAIN held'
    THEN (IF held'.alias = "students" THEN students' ELSE courses')
    ELSE held'.v

\* C30: a search with no effective criterion hands out the list object of
\* the store itself, a search with an effective criterion and a list call
\* hand out a new list. Creates and deletes done afterwards show in the
\* former and not in the latter, and removing an element from the former
\* removes it from the store's collection, from the latter leaves the store
\* as it is
C30_LiveList ==
    [][/\ last'.op = "search_students" =>
             IF NoCriterion(last'.criteria)
             THEN held' = PyAlias("students")
             ELSE held' = PyList(held'.v)
       /\ last'.op = "search_courses" =>
             IF NoCriterion(last'.criteria)
             THEN held' = PyAlias("courses")
             ELSE held' = PyList(held'.v)
       /\ last'.op = "list_students" => held' = PyList(students)
       /\ last'.op = "list_courses" => held' = PyList(courses)
       /\ (/\ last'.op \in {"create_student", "delete_student",
                            "create_course", "delete_course"}
           /\ held # None) =>
             IF held = PyAlias("students") THEN HeldNext = students'
             ELSE IF held = PyAlias("courses") THEN HeldNext = courses'
             ELSE HeldNext = Deref(held)
       /\ (last'.op = "pop" /\ held # None /\ Deref(held) # <<>>) =>
             /\ HeldNext = SubSeq(Deref(held), 1, Len(Deref(held)) - 1)
             /\ IF held = PyAlias("students")
                THEN students' = HeldNext /\ courses' = courses
                ELSE IF held = PyAlias("courses")
                THEN courses' = HeldNext /\ students' = students
                ELSE students' = students /\ courses' = courses]_vars

\* the caller keeps the list of a search without criteria; a student was
\* created afterwards and is in the list the caller keeps
C30_Witness ==
    /\ held = PyAlias("students")
    /\ last.op = "create_student"
    /\ last.error = NoError
    /\ \E i \in 1..Len(Deref(held)) : Deref(held)[i].student_id = last.student_id
    /\ Len(Deref(held)) = 2

====
